---- MODULE Spec2Model ----
(***************************************************************************)
(* Verification model of the canvas editor: the undo/redo history engine   *)
(* with its live overlay (App), the selection state (App) and the pointer  *)
(* interaction state machine (Canvas).                                     *)
(*                                                                         *)
(* World coordinates are integers counting 1/Den world units, so that the  *)
(* division by the zoom scale in the pointer transforms is exact.  Index   *)
(* values are 0-based as in the source; history[index + 1] is the current  *)
(* scene.  An optional value (T | null) is <<>> for null and <<v>> for v.  *)
(***************************************************************************)
EXTENDS Integers, Sequences, FiniteSets, TLC

\* ------------------------------------------------------------------ bounds
MaxIds == 3
MaxOps == 6
MaxPushes == 36
MaxUiOps == 6

\* ------------------------------------------------------- program constants
MAX_HISTORY_SIZE == 30
MAX_REFERENCE_IMAGES == 2
MIN_NOTE_WIDTH == 100
MIN_NOTE_HEIGHT == 50
RESIZE_HANDLE_SIZE == 12
CROP_HANDLE_SIZE == 10
UPLOAD_GAP == 20
NOTE_DEFAULT_WIDTH == 200
NOTE_DEFAULT_HEIGHT == 100
MARQUEE_THRESHOLD == 3
NANO_BANANA_MODEL_ID == "fal-ai/nano-banana/edit"
SEEDREAM_MODEL_ID == "fal-ai/bytedance/seedream/v4/edit"
REVE_TEXT_TO_IMAGE_MODEL_ID == "fal-ai/reve/text-to-image"
DEFAULT_FAL_MODEL_ID == NANO_BANANA_MODEL_ID

\* ------------------------------------------------------------ input domains
ZoomLevels == {1, 2}
Den == CHOOSE d \in ZoomLevels : \A s \in ZoomLevels : d % s = 0
Px(n) == n * Den

None == <<>>
Some(v) == <<v>>
IsSome(o) == o # <<>>
Coalesce(o, d) == IF o = <<>> THEN d ELSE o[1]

Range(s) == {s[i] : i \in 1..Len(s)}
Includes(s, e) == \E i \in 1..Len(s) : s[i] = e
Abs(n) == IF n < 0 THEN -n ELSE n
Min2(a, b) == IF a < b THEN a ELSE b
Max2(a, b) == IF a > b THEN a ELSE b

RECURSIVE Filter(_, _)
Filter(s, keep) ==
  IF s = <<>> THEN <<>>
  ELSE IF Head(s) \in keep THEN <<Head(s)>> \o Filter(Tail(s), keep)
       ELSE Filter(Tail(s), keep)

\* prevIds => includes(id) ? filter(x => x !== id) : [...prevIds, id]
ToggleId(ids, id) ==
  IF Includes(ids, id) THEN Filter(ids, Range(ids) \ {id}) ELSE Append(ids, id)

VARIABLES
  history, index,                      \* historyState
  liveImages, livePaths, liveNotes,    \* live overlay slots
  selectedImageIds, selectedNoteIds, referenceImageIds,
  editingNoteId, cropMode, tool, appMode,
  nextId,                              \* stands for crypto.randomUUID()
  scale, pan, pointer,
  buttonsDown,                         \* mouse buttons held (MouseEvent.buttons)
  isDragging, draggedImageIds, draggedNoteIds, dragStartPoint,
  dragStartImagePositions, dragStartNotePositions,
  isResizing, resizeStartDimensions,
  isDrawing,                           \* a brush or eraser stroke is in progress
  isPanning, panStart, temporaryTool,
  isMarqueeSelecting, marqueeStart, marqueeCurrent,
  cropAction, cropDragStart,
  trail,                               \* the last handler runs, newest last
  ops,                                 \* number of handler runs so far
  pushLog, runBroken,                  \* pushes since the history was created
  prompt, apiProvider, falModelId,     \* prompt bar state
  isLoading, isRemovingBackground,
  error,                               \* the current error message slot
  falJobs,                             \* tracked queue jobs, oldest first
  falAutoDismissTimeouts,              \* job ids with a pending dismissal timer
  requests,                            \* asynchronous handler calls in flight
  calls,                               \* number of asynchronous calls started
  exported,                            \* the last snapshot document written
  drops                                \* file drops whose files are being read

histVars == <<history, index>>
liveVars == <<liveImages, livePaths, liveNotes>>
selVars == <<selectedImageIds, selectedNoteIds, referenceImageIds>>
appVars == <<editingNoteId, cropMode, tool, appMode, nextId>>
dragVars == <<isDragging, draggedImageIds, draggedNoteIds, dragStartPoint,
              dragStartImagePositions, dragStartNotePositions,
              isResizing, resizeStartDimensions, isDrawing>>
panVars == <<isPanning, panStart, temporaryTool>>
marqueeVars == <<isMarqueeSelecting, marqueeStart, marqueeCurrent>>
cropVars == <<cropAction, cropDragStart>>
viewVars == <<scale, pan, pointer, buttonsDown>>
progVars == <<histVars, liveVars, selVars, appVars, dragVars, panVars, marqueeVars,
              cropVars, viewVars>>
promptVars == <<prompt, apiProvider, falModelId>>
jobVars == <<falJobs, falAutoDismissTimeouts>>
ioVars == <<promptVars, isLoading, isRemovingBackground, error, jobVars, requests, calls,
            exported, drops>>
vars == <<progVars, trail, ops, pushLog, runBroken, ioVars>>

\* ------------------------------------------------------------ scene values
EmptyScene == [images |-> <<>>, paths |-> <<>>, notes |-> <<>>]

CurrentScene == history[index + 1]
images == CurrentScene.images
paths == CurrentScene.paths
notes == CurrentScene.notes
displayedImages == Coalesce(liveImages, images)
displayedPaths == Coalesce(livePaths, paths)
displayedNotes == Coalesce(liveNotes, notes)
DisplayedScene ==
  [images |-> displayedImages, paths |-> displayedPaths, notes |-> displayedNotes]

\* Number.prototype.toFixed(2) and toFixed(0) on a value of v/Den world units:
\* the decimal string is represented by the integer it spells (hundredths,
\* units); ties round away from zero.
ToFixed2(v) == (v * 100) \div Den
ToFixed0(v) ==
  IF v >= 0 THEN (2 * v + Den) \div (2 * Den) ELSE -((2 * (-v) + Den) \div (2 * Den))

ImageSig(img) == <<img.id, ToFixed2(img.x), ToFixed2(img.y), img.width, img.height>>
PathSig(p) == <<Len(p.points), p.tool>>
NoteSig(n) ==
  <<n.id, ToFixed2(n.x), ToFixed2(n.y), ToFixed0(n.width), ToFixed0(n.height), Len(n.text)>>

getStateSignature(state) ==
  << [i \in 1..Len(state.images) |-> ImageSig(state.images[i])],
     [i \in 1..Len(state.paths) |-> PathSig(state.paths[i])],
     [i \in 1..Len(state.notes) |-> NoteSig(state.notes[i])] >>

\* ---------------------------------------------------------- history engine
\* The reducer passed to setHistoryState by setState, applied to the state
\* (h, i) with the updater's result newState.
PushNoDedup(h, i, newState) ==
  LET newHistory == Append(SubSeq(h, 1, i + 1), newState)
      capped == IF Len(newHistory) > MAX_HISTORY_SIZE THEN Tail(newHistory) ELSE newHistory
  IN [history |-> capped, index |-> Len(capped) - 1]

PushNoTruncate(h, i, newState) ==
  IF getStateSignature(newState) = getStateSignature(h[i + 1])
  THEN [history |-> h, index |-> i]
  ELSE LET newHistory == Append(h, newState)
           capped == IF Len(newHistory) > MAX_HISTORY_SIZE THEN Tail(newHistory) ELSE newHistory
       IN [history |-> capped, index |-> Len(capped) - 1]

PushStaleIndex(h, i, newState) ==
  IF getStateSignature(newState) = getStateSignature(h[i + 1])
  THEN [history |-> h, index |-> i]
  ELSE LET newHistory == Append(SubSeq(h, 1, i + 1), newState)
           capped == IF Len(newHistory) > MAX_HISTORY_SIZE THEN Tail(newHistory) ELSE newHistory
       IN [history |-> capped, index |-> Len(newHistory) - 1]

PushNoCap(h, i, newState) ==
  IF getStateSignature(newState) = getStateSignature(h[i + 1])
  THEN [history |-> h, index |-> i]
  ELSE LET newHistory == Append(SubSeq(h, 1, i + 1), newState)
       IN [history |-> newHistory, index |-> Len(newHistory) - 1]

Push(h, i, newState) ==
  IF getStateSignature(newState) = getStateSignature(h[i + 1])
  THEN [history |-> h, index |-> i]
  ELSE LET newHistory == Append(SubSeq(h, 1, i + 1), newState)
           capped == IF Len(newHistory) > MAX_HISTORY_SIZE THEN Tail(newHistory) ELSE newHistory
       IN [history |-> capped, index |-> Len(capped) - 1]

setState(newState) ==
  LET r == Push(history, index, newState)
  IN /\ history' = r.history
     /\ index' = r.index

canUndo == index > 0
canRedo == index < Len(history) - 1

ClearLive ==
  /\ liveImages' = None
  /\ livePaths' = None
  /\ liveNotes' = None

\* ------------------------------------------------------------ observation
\* One record per handler run: called = the run invoked setState, pushed =
\* that call changed the history, before/after = the committed current scene.
TrailDepth == 3
LastOps(t) == IF Len(t) < TrailDepth THEN t ELSE SubSeq(t, Len(t) - TrailDepth + 2, Len(t))

InitOp ==
  [name |-> "init", kind |-> "", req |-> None, moves |-> 0, called |-> FALSE, arg |-> None,
   pushed |-> FALSE, liveBefore |-> FALSE, indexBefore |-> 0, lenBefore |-> 1,
   selBefore |-> [img |-> <<>>, note |-> <<>>, ref |-> <<>>],
   before |-> [images |-> <<>>, paths |-> <<>>, notes |-> <<>>],
   after |-> [images |-> <<>>, paths |-> <<>>, notes |-> <<>>]]

lastOp == IF trail = <<>> THEN InitOp ELSE trail[Len(trail)]

\* kind names the branch a pointer handler took; moves counts the pointer-move
\* events of the gesture in progress.
OpRecordK(name, arg, kind) ==
  [name |-> name, kind |-> kind, req |-> None,
   moves |-> IF name = "move" THEN lastOp.moves + 1
             ELSE IF name \in {"up", "leave"} THEN lastOp.moves ELSE 0,
   called |-> arg # None, arg |-> arg,
   pushed |-> arg # None /\ <<history', index'>> # <<history, index>>,
   liveBefore |-> liveImages # None \/ livePaths # None \/ liveNotes # None,
   indexBefore |-> index, lenBefore |-> Len(history),
   selBefore |-> [img |-> selectedImageIds, note |-> selectedNoteIds,
                  ref |-> referenceImageIds],
   before |-> CurrentScene,
   after |-> IF index' + 1 \in DOMAIN history' THEN history'[index' + 1] ELSE CurrentScene]

OpRecord(name, arg) == OpRecordK(name, arg, "")

\* arg is Some(newState) when the handler run called setState with an updater
\* returning newState, None when it did not call setState.
Observe(name, arg) ==
  /\ ops < MaxOps
  /\ ops' = ops + 1
  /\ trail' = Append(LastOps(trail), OpRecord(name, arg))
  /\ UNCHANGED <<pushLog, runBroken>>

\* The observation kept while history is filled: only the last handler run,
\* and the log of pushes.  pushLog holds the signatures of the states pushed
\* since the history was created or replaced, oldest first, as long as every
\* one of those pushes was made at the end of the history with a signature not
\* pushed before; runBroken records that this stopped being so.
ObserveCap(name, arg) ==
  /\ trail' = <<OpRecord(name, arg)>>
  /\ UNCHANGED ops
  /\ IF name = "import"
     THEN pushLog' = <<>> /\ runBroken' = FALSE
     ELSE IF arg # None /\ <<history', index'>> # <<history, index>>
     THEN IF runBroken \/ canRedo \/ Includes(pushLog, getStateSignature(arg[1]))
          THEN pushLog' = <<>> /\ runBroken' = TRUE
          ELSE pushLog' = Append(pushLog, getStateSignature(arg[1])) /\ UNCHANGED runBroken
     ELSE UNCHANGED <<pushLog, runBroken>>

\* The observation kept in the pointer-interaction behaviours: the last
\* handler run with the branch it took.
ObserveUi(name, arg, kind) ==
  /\ ops < MaxUiOps
  /\ ops' = ops + 1
  /\ trail' = <<OpRecordK(name, arg, kind)>>
  /\ UNCHANGED <<pushLog, runBroken>>

\* ------------------------------------------------------------- selection
Selection == [img |-> selectedImageIds, note |-> selectedNoteIds, ref |-> referenceImageIds]
NoSelection == [img |-> <<>>, note |-> <<>>, ref |-> <<>>]

SetSelection(s) ==
  /\ selectedImageIds' = s.img
  /\ selectedNoteIds' = s.note
  /\ referenceImageIds' = s.ref

\* setReferenceImageIds updater of the reference toggle.
ToggleReference(ids, id) ==
  IF Includes(ids, id) THEN Filter(ids, Range(ids) \ {id})
  ELSE IF Len(ids) < MAX_REFERENCE_IMAGES THEN Append(ids, id)
  ELSE ids

\* handleImageSelection: cl is the selection of the render the callback closes
\* over, s the pending selection its state updates apply to; imageId is None
\* for null.
handleImageSelection(cl, s, imageId, multi, reference) ==
  LET primaryImageId == IF cl.img = <<>> THEN None ELSE Some(cl.img[1])
  IN IF imageId = None
     THEN IF ~multi THEN NoSelection ELSE s
     ELSE LET id == imageId[1]
          IN IF reference /\ primaryImageId # None /\ imageId # primaryImageId
             THEN [s EXCEPT !.ref = ToggleReference(s.ref, id)]
             ELSE IF multi
             THEN [s EXCEPT !.ref = <<>>, !.img = ToggleId(s.img, id)]
             ELSE IF primaryImageId = imageId /\ Len(cl.img) = 1
             THEN [s EXCEPT !.note = <<>>, !.ref = <<>>]
             ELSE [img |-> <<id>>, note |-> <<>>, ref |-> <<>>]

NoteSelectionKeepsImages(cl, s, noteId, multi) ==
  LET primaryNoteId == IF cl.note = <<>> THEN None ELSE Some(cl.note[1])
  IN IF noteId = None
     THEN IF ~multi THEN NoSelection ELSE s
     ELSE LET id == noteId[1]
          IN IF multi
             THEN [s EXCEPT !.note = ToggleId(s.note, id)]
             ELSE IF primaryNoteId = noteId /\ Len(cl.note) = 1
             THEN [s EXCEPT !.ref = <<>>]
             ELSE [s EXCEPT !.note = <<id>>, !.ref = <<>>]

handleNoteSelection(cl, s, noteId, multi) ==
  LET primaryNoteId == IF cl.note = <<>> THEN None ELSE Some(cl.note[1])
  IN IF noteId = None
     THEN IF ~multi THEN NoSelection ELSE s
     ELSE LET id == noteId[1]
          IN IF multi
             THEN [s EXCEPT !.note = ToggleId(s.note, id)]
             ELSE IF primaryNoteId = noteId /\ Len(cl.note) = 1
             THEN [s EXCEPT !.img = <<>>, !.ref = <<>>]
             ELSE [img |-> <<>>, note |-> <<id>>, ref |-> <<>>]

\* ------------------------------------------------------------ App handlers
\* handleCommit: fold the live overlay into a push and clear it.
HasLive == liveImages # None \/ livePaths # None \/ liveNotes # None

CommittedState ==
  [images |-> Coalesce(liveImages, images),
   paths |-> Coalesce(livePaths, paths),
   notes |-> Coalesce(liveNotes, notes)]

handleCommit ==
  IF HasLive
  THEN /\ setState(CommittedState)
       /\ ClearLive
  ELSE UNCHANGED <<histVars, liveVars>>

CommitArg == IF HasLive THEN Some(CommittedState) ELSE None

\* undo / redo as invoked by a caller (the toolbar buttons).
UndoKeepsLive ==
  IF canUndo
  THEN /\ index' = index - 1
       /\ UNCHANGED <<history, liveVars>>
  ELSE UNCHANGED <<histVars, liveVars>>

undo ==
  IF canUndo
  THEN /\ ClearLive
       /\ index' = index - 1
       /\ UNCHANGED history
  ELSE UNCHANGED <<histVars, liveVars>>

redo ==
  IF canRedo
  THEN /\ ClearLive
       /\ index' = index + 1
       /\ UNCHANGED history
  ELSE UNCHANGED <<histVars, liveVars>>

Undo ==
  /\ UNCHANGED ioVars
  /\ undo
  /\ UNCHANGED <<selVars, appVars, dragVars, panVars, marqueeVars, cropVars, viewVars>>

Redo ==
  /\ UNCHANGED ioVars
  /\ redo
  /\ UNCHANGED <<selVars, appVars, dragVars, panVars, marqueeVars, cropVars, viewVars>>

\* handleClear resetting the scene.
ClearedEverything == EmptyScene

\* handleClear
ClearedState == [CurrentScene EXCEPT !.paths = <<>>]

HandleClear ==
  /\ UNCHANGED ioVars
  /\ setState(ClearedState)
  /\ UNCHANGED <<liveVars, selVars, appVars, dragVars, panVars, marqueeVars, cropVars, viewVars>>

\* handleDelete
DeletedState ==
  [CurrentScene EXCEPT
     !.images = IF selectedImageIds # <<>>
                THEN SelectSeq(images, LAMBDA img : ~Includes(selectedImageIds, img.id))
                ELSE images,
     !.notes = IF selectedNoteIds # <<>>
               THEN SelectSeq(notes, LAMBDA n : ~Includes(selectedNoteIds, n.id))
               ELSE notes]

HandleDelete ==
  /\ UNCHANGED ioVars
  /\ selectedImageIds # <<>> \/ selectedNoteIds # <<>>
  /\ setState(DeletedState)
  /\ selectedImageIds' = <<>>
  /\ referenceImageIds' = IF selectedImageIds # <<>> THEN <<>> ELSE referenceImageIds
  /\ selectedNoteIds' = <<>>
  /\ UNCHANGED <<liveVars, appVars, dragVars, panVars, marqueeVars, cropVars, viewVars>>

\* handleToolChange
HandleToolChange(newTool) ==
  /\ UNCHANGED ioVars
  /\ tool' = newTool
  /\ IF editingNoteId # None
     THEN editingNoteId' = None /\ handleCommit
     ELSE UNCHANGED <<editingNoteId, histVars, liveVars>>
  /\ cropMode' = None
  /\ UNCHANGED <<selVars, appMode, nextId, dragVars, panVars, marqueeVars, cropVars, viewVars>>

\* handleFileChange, at the moment the uploaded file has been decoded
\* (img.onload): w, h are the decoded width and height in pixels.
\* handleFileChange placing the upload against the last image without a gap.
UploadedStateNoGap(w, h) ==
  LET last == images[Len(images)]
      newX == IF Len(images) > 0 THEN last.x + last.width ELSE 0
      newY == IF Len(images) > 0 THEN last.y ELSE 0
      newCanvasImage == [id |-> nextId, x |-> newX, y |-> newY,
                         width |-> Px(w), height |-> Px(h)]
  IN [CurrentScene EXCEPT !.images = Append(images, newCanvasImage), !.paths = <<>>]

UploadedState(w, h) ==
  LET last == images[Len(images)]
      newX == IF Len(images) > 0 THEN last.x + last.width + Px(UPLOAD_GAP) ELSE 0
      newY == IF Len(images) > 0 THEN last.y ELSE 0
      newCanvasImage == [id |-> nextId, x |-> newX, y |-> newY,
                         width |-> Px(w), height |-> Px(h)]
  IN [CurrentScene EXCEPT !.images = Append(images, newCanvasImage), !.paths = <<>>]

HandleFileChange(w, h) ==
  /\ UNCHANGED ioVars
  /\ nextId <= MaxIds
  /\ setState(UploadedState(w, h))
  /\ SetSelection([img |-> <<nextId>>, note |-> <<>>, ref |-> <<>>])
  /\ nextId' = nextId + 1
  /\ tool' = "SELECTION"
  /\ UNCHANGED <<liveVars, editingNoteId, cropMode, appMode, dragVars, panVars, marqueeVars,
                 cropVars, viewVars>>

\* handleNoteTextChange, from the text area of the note being edited.
HandleNoteTextChange(text) ==
  /\ UNCHANGED ioVars
  /\ editingNoteId # None
  /\ LET targetNotes == Coalesce(liveNotes, displayedNotes)
         hit == {i \in 1..Len(targetNotes) : targetNotes[i].id = editingNoteId[1]}
     IN /\ hit # {}
        /\ LET noteIndex == CHOOSE i \in hit : \A j \in hit : i <= j
           IN /\ targetNotes[noteIndex].text # text
              /\ liveNotes' = Some([targetNotes EXCEPT ![noteIndex].text = text])
  /\ UNCHANGED <<histVars, liveImages, livePaths, selVars, appVars, dragVars, panVars,
                 marqueeVars, cropVars, viewVars>>

\* Canvas handleNoteBlur: onCommit(); onNoteEditEnd().
HandleNoteBlur ==
  /\ UNCHANGED ioVars
  /\ editingNoteId # None
  /\ handleCommit
  /\ editingNoteId' = None
  /\ UNCHANGED <<selVars, cropMode, tool, appMode, nextId, dragVars, panVars, marqueeVars,
                 cropVars, viewVars>>

\* A meta field that is applied only when the document carries it with a
\* valid value; otherwise the current value d stays.
MetaOr(meta, field, d) ==
  IF meta # None /\ field \in DOMAIN meta[1] THEN meta[1][field] ELSE d

\* The import recording the restored scene as one more history entry.
ApplySnapshotPushes(doc) ==
  /\ ClearLive
  /\ setState(doc.state)
  /\ SetSelection(IF doc.meta # None THEN doc.meta[1].selection ELSE NoSelection)
  /\ error' = None
  /\ UNCHANGED <<editingNoteId, cropMode, tool, appMode, dragVars, panVars, marqueeVars,
                 cropVars, viewVars>>
  /\ UNCHANGED <<promptVars, isLoading, isRemovingBackground, jobVars, requests, calls,
                 exported, drops>>

\* The state updates of handleImportSnapshotFromFile, made in one block once
\* the document has been parsed and converted: doc.state is the restored
\* scene, doc.meta the optional meta block.
ApplySnapshot(doc) ==
  /\ ClearLive
  /\ history' = <<doc.state>>
  /\ index' = 0
  /\ IF doc.meta # None
     THEN /\ appMode' = doc.meta[1].appMode
          /\ tool' = doc.meta[1].tool
          /\ SetSelection(doc.meta[1].selection)
     ELSE /\ SetSelection(NoSelection)
          /\ UNCHANGED <<appMode, tool>>
  /\ prompt' = MetaOr(doc.meta, "prompt", prompt)
  /\ apiProvider' = MetaOr(doc.meta, "apiProvider", apiProvider)
  /\ falModelId' = MetaOr(doc.meta, "falModelId", falModelId)
  /\ error' = None
  /\ UNCHANGED <<editingNoteId, cropMode, dragVars, panVars, marqueeVars, cropVars, viewVars>>
  /\ UNCHANGED <<isLoading, isRemovingBackground, jobVars, requests, calls, exported, drops>>

\* handleImportSnapshotFromFile, for a document in which every entry carries
\* its id.
HandleImportSnapshot(doc) ==
  /\ ApplySnapshot(doc)
  /\ UNCHANGED nextId

\* ------------------------------------------------------- geometry (Canvas)
\* getTransformedPoint: client pixels to world units.
ToWorld(p) ==
  [x |-> ((p.x - pan.x) * Den) \div scale, y |-> ((p.y - pan.y) * Den) \div scale]

InRect(pt, r) ==
  /\ pt.x >= r.x /\ pt.x <= r.x + r.width
  /\ pt.y >= r.y /\ pt.y <= r.y + r.height

\* getNoteAtPoint / getImageAtPoint: the topmost (last) object whose rectangle
\* contains the point, bounds included; None when there is none.
TopmostAt(pt, objs) ==
  LET hit == {i \in 1..Len(objs) : InRect(pt, objs[i])}
  IN IF hit = {} THEN None ELSE Some(objs[CHOOSE i \in hit : \A j \in hit : j <= i])

getNoteAtPoint(pt) == TopmostAt(pt, displayedNotes)
getImageAtPoint(pt) == TopmostAt(pt, displayedImages)

\* Canvas handleMouseDown with the Note tool (no crop session), followed by the
\* App effect that runs in the same flush: the new note makes displayedNotes
\* longer while tool = NOTE, so handleToolChange(FREE_SELECTION) runs with
\* editingNoteId set and commits the overlay.
NotedState(p) ==
  LET point == ToWorld(p)
      newNote == [id |-> nextId,
                  x |-> point.x - Px(NOTE_DEFAULT_WIDTH) \div 2,
                  y |-> point.y - Px(NOTE_DEFAULT_HEIGHT) \div 2,
                  width |-> Px(NOTE_DEFAULT_WIDTH), height |-> Px(NOTE_DEFAULT_HEIGHT),
                  text |-> <<>>]
  IN [images |-> Coalesce(liveImages, images),
      paths |-> Coalesce(livePaths, paths),
      notes |-> Append(displayedNotes, newNote)]

NoteToolMouseDown(p) ==
  /\ UNCHANGED ioVars
  /\ cropMode = None
  /\ tool = "NOTE"
  /\ nextId <= MaxIds
  /\ setState(NotedState(p))
  /\ ClearLive
  /\ SetSelection(handleNoteSelection(Selection, Selection, Some(nextId), FALSE))
  /\ nextId' = nextId + 1
  /\ pointer' = p
  /\ tool' = "FREE_SELECTION"
  /\ editingNoteId' = None
  /\ UNCHANGED <<cropMode, appMode, scale, pan, buttonsDown, dragVars, panVars, marqueeVars,
                 cropVars>>

\* Canvas handleDoubleClick
HandleDoubleClick(p) ==
  /\ UNCHANGED ioVars
  /\ cropMode = None
  /\ LET note == getNoteAtPoint(ToWorld(p))
     IN /\ note # None
        /\ editingNoteId' = Some(note[1].id)
  /\ pointer' = p
  /\ UNCHANGED <<histVars, liveVars, selVars, cropMode, tool, appMode, nextId, scale, pan,
                 buttonsDown, dragVars, panVars, marqueeVars, cropVars>>

\* ------------------------------------------------ pointer handlers (Canvas)
SelectionTools == {"SELECTION", "FREE_SELECTION"}
currentTool == IF temporaryTool # None THEN temporaryTool[1] ELSE tool

\* Array.prototype.find(o => o.id === id)
FindById(objs, id) ==
  LET hit == {i \in 1..Len(objs) : objs[i].id = id}
  IN IF hit = {} THEN None ELSE Some(objs[CHOOSE i \in hit : \A j \in hit : i <= j])

\* The point lies in the quadrant right of and below the top-left corner of
\* the resize handle of the note (handleMouseDown tests no upper bound).
OnResizeHandle(point, note) ==
  LET handleSize == Px(RESIZE_HANDLE_SIZE) \div scale
  IN /\ point.x >= note.x + note.width - handleSize
     /\ point.y >= note.y + note.height - handleSize

\* getCropActionForPoint; the comparisons are doubled, so that the midpoints of
\* the rectangle's sides need no halves.
checkHandle(point, hx2, hy2) ==
  LET handleSize == Px(CROP_HANDLE_SIZE) \div scale
  IN /\ 2 * point.x >= hx2 - handleSize /\ 2 * point.x <= hx2 + handleSize
     /\ 2 * point.y >= hy2 - handleSize /\ 2 * point.y <= hy2 + handleSize

getCropActionForPoint(point, image, rect) ==
  LET absX == image.x + rect.x
      absY == image.y + rect.y
  IN IF checkHandle(point, 2 * absX, 2 * absY) THEN Some("resize-tl")
     ELSE IF checkHandle(point, 2 * (absX + rect.width), 2 * absY) THEN Some("resize-tr")
     ELSE IF checkHandle(point, 2 * absX, 2 * (absY + rect.height)) THEN Some("resize-bl")
     ELSE IF checkHandle(point, 2 * (absX + rect.width), 2 * (absY + rect.height))
          THEN Some("resize-br")
     ELSE IF checkHandle(point, 2 * absX + rect.width, 2 * absY) THEN Some("resize-t")
     ELSE IF checkHandle(point, 2 * (absX + rect.width), 2 * absY + rect.height)
          THEN Some("resize-r")
     ELSE IF checkHandle(point, 2 * absX + rect.width, 2 * (absY + rect.height))
          THEN Some("resize-b")
     ELSE IF checkHandle(point, 2 * absX, 2 * absY + rect.height) THEN Some("resize-l")
     ELSE IF /\ point.x > absX /\ point.x < absX + rect.width
             /\ point.y > absY /\ point.y < absY + rect.height
          THEN Some("move")
     ELSE None

\* The branch handleMouseDown takes for the event (p, button, mods).
MouseDownBranch(p, button, mods) ==
  LET point == ToWorld(p)
      activeTool == IF button = 1 THEN "FREE_SELECTION" ELSE tool
      isMultiSelectKey == mods.meta
      isReferenceToggle == ~mods.meta /\ mods.shift
      imageToCrop == FindById(displayedImages, cropMode[1].imageId)
      resizableNote == IF Len(selectedNoteIds) = 1
                       THEN FindById(displayedNotes, selectedNoteIds[1]) ELSE None
      note == getNoteAtPoint(point)
      image == getImageAtPoint(point)
  IN IF cropMode # None
     THEN IF imageToCrop = None THEN "crop-none"
          ELSE IF getCropActionForPoint(point, imageToCrop[1], cropMode[1].rect) # None
          THEN "crop-grab"
          ELSE "crop-miss"
     ELSE IF activeTool = "NOTE" THEN "note-create"
     ELSE IF activeTool \in SelectionTools
     THEN IF resizableNote # None /\ OnResizeHandle(point, resizableNote[1]) THEN "resize"
          ELSE IF note # None
          THEN IF isMultiSelectKey \/ mods.shift THEN "note-multi"
               ELSE IF Includes(selectedNoteIds, note[1].id) THEN "note-drag-selected"
               ELSE "note-plain"
          ELSE IF image # None
          THEN IF isReferenceToggle THEN "image-reference"
               ELSE IF isMultiSelectKey THEN "image-multi"
               ELSE IF Includes(selectedImageIds, image[1].id) THEN "image-drag-selected"
               ELSE "image-plain"
          ELSE IF isMultiSelectKey THEN "marquee"
          ELSE IF activeTool = "FREE_SELECTION" THEN "miss-pan"
          ELSE "miss"
     ELSE IF activeTool = "PAN" THEN "pan"
     ELSE IF activeTool \in {"BRUSH", "ERASE"}
     THEN IF activeTool = "BRUSH" /\ appMode \notin {"ANNOTATE", "INPAINT"}
          THEN "draw-armed" ELSE "draw"
     ELSE "none"

Positions(objs, ids) ==
  [id \in {i \in Range(ids) : FindById(objs, i) # None} |->
     [x |-> FindById(objs, id)[1].x, y |-> FindById(objs, id)[1].y]]

beginDrag(p, imageIdsToDrag, noteIdsToDrag) ==
  LET imagePositions == Positions(displayedImages, imageIdsToDrag)
      notePositions == Positions(displayedNotes, noteIdsToDrag)
  IN /\ isDragging' = TRUE
     /\ dragStartPoint' = Some(p)
     /\ draggedImageIds' = imageIdsToDrag
     /\ draggedNoteIds' = noteIdsToDrag
     /\ dragStartImagePositions' =
          IF DOMAIN imagePositions # {} THEN Some(imagePositions) ELSE None
     /\ dragStartNotePositions' =
          IF DOMAIN notePositions # {} THEN Some(notePositions) ELSE None
     /\ UNCHANGED <<isResizing, resizeStartDimensions, isDrawing>>

\* A path object.  ref stands for the identity of the object: two entries
\* with the same ref, in any snapshot or in the overlay, are one object, and
\* a new object gets a ref no object in the history or the overlay has.  The
\* colour and the size of a stroke are not modelled.
AllPaths ==
  UNION {Range(history[i].paths) : i \in 1..Len(history)} \cup Range(Coalesce(livePaths, <<>>))

FreshPathRef ==
  LET refs == {0} \cup {path.ref : path \in AllPaths}
  IN 1 + CHOOSE m \in refs : \A n \in refs : n <= m

\* The path a stroke starts with: Brush draws an ANNOTATE or INPAINT path
\* after the mode, Erase an ERASE path.
NewPath(point) ==
  [ref |-> FreshPathRef, points |-> <<point>>,
   tool |-> IF tool = "BRUSH" THEN appMode ELSE "ERASE"]

\* handleMouseDown for every tool but the Note tool.
HandleMouseDown(p, button, mods) ==
  \E branch \in {MouseDownBranch(p, button, mods)} :
  LET point == ToWorld(p)
      note == getNoteAtPoint(point)
      image == getImageAtPoint(point)
  IN /\ button \notin buttonsDown
     /\ UNCHANGED ioVars
     /\ branch # "note-create"
     /\ pointer' = p
     /\ buttonsDown' = buttonsDown \cup {button}
     /\ temporaryTool' = IF cropMode = None /\ button = 1
                         THEN Some("FREE_SELECTION") ELSE temporaryTool
     /\ IF branch = "crop-grab"
        THEN /\ cropAction' = getCropActionForPoint(
                  point, FindById(displayedImages, cropMode[1].imageId)[1], cropMode[1].rect)
             /\ cropDragStart' = Some([point |-> point, rect |-> cropMode[1].rect])
        ELSE UNCHANGED cropVars
     /\ SetSelection(
          CASE branch = "note-multi" ->
                 handleNoteSelection(Selection, Selection, Some(note[1].id), TRUE)
            [] branch = "note-plain" ->
                 handleNoteSelection(Selection, Selection, Some(note[1].id), FALSE)
            [] branch = "image-reference" ->
                 handleImageSelection(Selection, Selection, Some(image[1].id), FALSE, TRUE)
            [] branch = "image-multi" ->
                 handleImageSelection(Selection, Selection, Some(image[1].id), TRUE, FALSE)
            [] branch = "image-plain" ->
                 handleImageSelection(Selection, Selection, Some(image[1].id), FALSE, FALSE)
            [] branch \in {"miss", "miss-pan"} ->
                 handleNoteSelection(Selection,
                   handleImageSelection(Selection, Selection, None, FALSE, FALSE),
                   None, FALSE)
            [] OTHER -> Selection)
     /\ CASE branch = "resize" ->
               /\ isResizing' = TRUE
               /\ draggedNoteIds' = <<selectedNoteIds[1]>>
               /\ dragStartPoint' = Some(p)
               /\ resizeStartDimensions' =
                    Some([width |-> FindById(displayedNotes, selectedNoteIds[1])[1].width,
                          height |-> FindById(displayedNotes, selectedNoteIds[1])[1].height])
               /\ UNCHANGED <<isDragging, draggedImageIds, dragStartImagePositions,
                              dragStartNotePositions, isDrawing>>
          [] branch = "note-plain" -> beginDrag(p, <<>>, <<note[1].id>>)
          [] branch = "note-drag-selected" -> beginDrag(p, selectedImageIds, selectedNoteIds)
          [] branch = "image-plain" -> beginDrag(p, <<image[1].id>>, <<>>)
          [] branch = "image-drag-selected" -> beginDrag(p, selectedImageIds, selectedNoteIds)
          [] branch \in {"draw", "draw-armed"} ->
               /\ isDrawing' = TRUE
               /\ UNCHANGED <<isDragging, draggedImageIds, draggedNoteIds, dragStartPoint,
                              dragStartImagePositions, dragStartNotePositions,
                              isResizing, resizeStartDimensions>>
          [] OTHER -> UNCHANGED dragVars
     /\ IF branch = "marquee"
        THEN /\ isMarqueeSelecting' = TRUE
             /\ marqueeStart' = Some(point)
             /\ marqueeCurrent' = Some(point)
        ELSE UNCHANGED marqueeVars
     /\ IF branch \in {"miss-pan", "pan"}
        THEN /\ isPanning' = TRUE
             /\ panStart' = [x |-> p.x - pan.x, y |-> p.y - pan.y]
        ELSE UNCHANGED <<isPanning, panStart>>
     /\ livePaths' = IF branch = "draw"
                     THEN Some(Append(displayedPaths, NewPath(point))) ELSE livePaths
     /\ UNCHANGED <<histVars, liveImages, liveNotes, appVars, scale, pan>>

\* The crop rectangle computed by handleMouseMove from the rectangle at the
\* start of the handle drag and the world delta (dx, dy).
CropDragged(action, r, dx, dy) ==
  CASE action = "move" -> [r EXCEPT !.x = @ + dx, !.y = @ + dy]
    [] action = "resize-tl" ->
         [r EXCEPT !.x = @ + dx, !.y = @ + dy, !.width = @ - dx, !.height = @ - dy]
    [] action = "resize-t" -> [r EXCEPT !.y = @ + dy, !.height = @ - dy]
    [] action = "resize-tr" -> [r EXCEPT !.y = @ + dy, !.width = @ + dx, !.height = @ - dy]
    [] action = "resize-r" -> [r EXCEPT !.width = @ + dx]
    [] action = "resize-br" -> [r EXCEPT !.width = @ + dx, !.height = @ + dy]
    [] action = "resize-b" -> [r EXCEPT !.height = @ + dy]
    [] action = "resize-bl" -> [r EXCEPT !.x = @ + dx, !.width = @ - dx, !.height = @ + dy]
    [] action = "resize-l" -> [r EXCEPT !.x = @ + dx, !.width = @ - dx]
    [] OTHER -> r

CropFlipped(r) ==
  LET r1 == IF r.width < 0 THEN [r EXCEPT !.x = @ + r.width, !.width = -r.width] ELSE r
  IN IF r1.height < 0 THEN [r1 EXCEPT !.y = @ + r1.height, !.height = -r1.height] ELSE r1

CropClamped(r, image) ==
  LET r1 == [r EXCEPT !.x = Max2(0, r.x), !.y = Max2(0, r.y)]
      r2 == IF r1.x + r1.width > image.width
            THEN [r1 EXCEPT !.width = image.width - r1.x] ELSE r1
  IN IF r2.y + r2.height > image.height
     THEN [r2 EXCEPT !.height = image.height - r2.y] ELSE r2

CropRectAfterMove(p, image) ==
  LET point == ToWorld(p)
      dx == point.x - cropDragStart[1].point.x
      dy == point.y - cropDragStart[1].point.y
  IN CropClamped(CropFlipped(CropDragged(cropAction[1], cropDragStart[1].rect, dx, dy)), image)

\* The world delta of a drag or resize whose pointer is now at p.
DragDelta(p) ==
  [x |-> ((p.x - dragStartPoint[1].x) * Den) \div scale,
   y |-> ((p.y - dragStartPoint[1].y) * Den) \div scale]

MoveDraggedFromCurrent(objs, ids, starts, d) ==
  [i \in 1..Len(objs) |->
     IF Includes(ids, objs[i].id) /\ objs[i].id \in DOMAIN starts
     THEN [objs[i] EXCEPT !.x = objs[i].x + d.x, !.y = objs[i].y + d.y]
     ELSE objs[i]]

MoveDragged(objs, ids, starts, d) ==
  [i \in 1..Len(objs) |->
     IF Includes(ids, objs[i].id) /\ objs[i].id \in DOMAIN starts
     THEN [objs[i] EXCEPT !.x = starts[objs[i].id].x + d.x, !.y = starts[objs[i].id].y + d.y]
     ELSE objs[i]]

ResizedNotes(p) ==
  LET d == DragDelta(p)
      newWidth == Max2(Px(MIN_NOTE_WIDTH), resizeStartDimensions[1].width + d.x)
      newHeight == Max2(Px(MIN_NOTE_HEIGHT), resizeStartDimensions[1].height + d.y)
      hit == {i \in 1..Len(displayedNotes) : displayedNotes[i].id = draggedNoteIds[1]}
      noteIndex == CHOOSE i \in hit : \A j \in hit : i <= j
  IN [displayedNotes EXCEPT ![noteIndex].width = newWidth, ![noteIndex].height = newHeight]

MouseMoveBranch ==
  IF isMarqueeSelecting THEN "marquee"
  ELSE IF cropMode # None /\ cropAction # None /\ cropDragStart # None THEN "crop"
  ELSE IF /\ isResizing /\ Len(draggedNoteIds) = 1
          /\ dragStartPoint # None /\ resizeStartDimensions # None
       THEN "resize"
  ELSE IF isPanning THEN "pan"
  ELSE IF isDragging /\ currentTool \in SelectionTools /\ dragStartPoint # None THEN "drag"
  ELSE IF ~isDrawing THEN "hover"
  ELSE IF displayedPaths = <<>> THEN "draw-throw"
  ELSE "draw"

\* newPaths[newPaths.length - 1].points.push(point): the point is added to the
\* path object itself, wherever that object is held.
PushPoint(ps, ref, point) ==
  [i \in 1..Len(ps) |->
     IF ps[i].ref = ref THEN [ps[i] EXCEPT !.points = Append(@, point)] ELSE ps[i]]

\* handleMouseMove.  With a stroke in progress and no displayed path the
\* handler throws at newPaths[-1].points and changes nothing.
HandleMouseMove(p) ==
  \E branch \in {MouseMoveBranch} :
  LET imageToCrop == FindById(displayedImages, cropMode[1].imageId)
  IN /\ p # pointer
     /\ UNCHANGED ioVars
     /\ pointer' = p
     /\ marqueeCurrent' = IF branch = "marquee" THEN Some(ToWorld(p)) ELSE marqueeCurrent
     /\ cropMode' = IF branch = "crop" /\ imageToCrop # None
                    THEN Some([cropMode[1] EXCEPT !.rect = CropRectAfterMove(p, imageToCrop[1])])
                    ELSE cropMode
     /\ pan' = IF branch = "pan" THEN [x |-> p.x - panStart.x, y |-> p.y - panStart.y] ELSE pan
     /\ liveImages' =
          IF branch = "drag" /\ draggedImageIds # <<>> /\ dragStartImagePositions # None
          THEN Some(MoveDragged(displayedImages, draggedImageIds,
                                dragStartImagePositions[1], DragDelta(p)))
          ELSE liveImages
     /\ liveNotes' =
          IF /\ branch = "resize"
             /\ \E i \in 1..Len(displayedNotes) : displayedNotes[i].id = draggedNoteIds[1]
          THEN Some(ResizedNotes(p))
          ELSE IF branch = "drag" /\ draggedNoteIds # <<>> /\ dragStartNotePositions # None
          THEN Some(MoveDragged(displayedNotes, draggedNoteIds,
                                dragStartNotePositions[1], DragDelta(p)))
          ELSE liveNotes
     /\ IF branch = "draw"
        THEN LET drawn == displayedPaths[Len(displayedPaths)].ref
             IN /\ livePaths' = Some(PushPoint(displayedPaths, drawn, ToWorld(p)))
                /\ history' = [i \in 1..Len(history) |->
                                 [history[i] EXCEPT !.paths = PushPoint(@, drawn, ToWorld(p))]]
        ELSE UNCHANGED <<livePaths, history>>
     /\ UNCHANGED <<index, selVars, editingNoteId, tool, appMode, nextId,
                    dragVars, panVars, isMarqueeSelecting, marqueeStart, cropVars,
                    scale, buttonsDown>>

\* The marquee box at release and what it covers.
MarqueeBox ==
  LET finalPoint == ToWorld(pointer)
      currentPoint == Coalesce(marqueeCurrent, finalPoint)
      start == marqueeStart[1]
  IN [minX |-> Min2(start.x, currentPoint.x), maxX |-> Max2(start.x, currentPoint.x),
      minY |-> Min2(start.y, currentPoint.y), maxY |-> Max2(start.y, currentPoint.y),
      isSignificant |->
        Max2(Abs(currentPoint.x - start.x) * scale, Abs(currentPoint.y - start.y) * scale)
          > Px(MARQUEE_THRESHOLD)]

InBounds(obj, bounds) ==
  /\ obj.x < bounds.maxX
  /\ obj.x + obj.width > bounds.minX
  /\ obj.y < bounds.maxY
  /\ obj.y + obj.height > bounds.minY

IdsInBounds(objs, bounds) ==
  LET inside == SelectSeq(objs, LAMBDA o : InBounds(o, bounds))
  IN [i \in 1..Len(inside) |-> inside[i].id]

RECURSIVE SelectImages(_, _, _)
SelectImages(cl, s, ids) ==
  IF ids = <<>> THEN s
  ELSE SelectImages(cl, handleImageSelection(cl, s, Some(Head(ids)), TRUE, FALSE), Tail(ids))

RECURSIVE SelectNotes(_, _, _)
SelectNotes(cl, s, ids) ==
  IF ids = <<>> THEN s
  ELSE SelectNotes(cl, handleNoteSelection(cl, s, Some(Head(ids)), TRUE), Tail(ids))

MarqueeAddsToSelection ==
  LET imageIdsInBounds == IdsInBounds(displayedImages, MarqueeBox)
      noteIdsInBounds == IdsInBounds(displayedNotes, MarqueeBox)
  IN IF MarqueeBox.isSignificant /\ (imageIdsInBounds # <<>> \/ noteIdsInBounds # <<>>)
     THEN SelectNotes(Selection, SelectImages(Selection, Selection, imageIdsInBounds),
                      noteIdsInBounds)
     ELSE Selection

\* The selection handleMouseUp leaves when it ends a marquee.
MarqueeSelection ==
  LET imageIdsInBounds == IdsInBounds(displayedImages, MarqueeBox)
      noteIdsInBounds == IdsInBounds(displayedNotes, MarqueeBox)
      cleared == handleNoteSelection(Selection,
                   handleImageSelection(Selection, Selection, None, FALSE, FALSE),
                   None, FALSE)
  IN IF MarqueeBox.isSignificant /\ (imageIdsInBounds # <<>> \/ noteIdsInBounds # <<>>)
     THEN SelectNotes(Selection, SelectImages(Selection, cleared, imageIdsInBounds),
                      noteIdsInBounds)
     ELSE Selection

MouseUpBranch(button) ==
  IF cropMode # None /\ cropAction # None THEN "crop-end"
  ELSE IF isMarqueeSelecting /\ marqueeStart # None
  THEN IF ~MarqueeBox.isSignificant THEN "marquee-click"
       ELSE IF MarqueeSelection = Selection
               /\ IdsInBounds(displayedImages, MarqueeBox) = <<>>
               /\ IdsInBounds(displayedNotes, MarqueeBox) = <<>>
       THEN "marquee-empty"
       ELSE "marquee-select"
  ELSE IF button = 1 THEN (IF isDragging THEN "drag-end" ELSE "middle-end")
  ELSE IF isDragging THEN "drag-end"
  ELSE IF isResizing THEN "resize-end"
  ELSE IF isDrawing THEN "draw-end"
  ELSE IF isPanning THEN "pan-end"
  ELSE "idle"

\* Whether handleMouseUp calls onCommit, and the setState argument it makes.
MouseUpCommits(button) ==
  /\ ~(cropMode # None /\ cropAction # None)
  /\ IF button = 1 THEN isDragging ELSE isDrawing \/ isDragging \/ isResizing

MouseUpArg(button) == IF MouseUpCommits(button) THEN CommitArg ELSE None

\* handleMouseUp, bound to mouseup and to mouseleave (isLeave); the event is
\* at the last pointer position.
HandleMouseUp(button, isLeave) ==
  /\ UNCHANGED ioVars
  /\ IF isLeave THEN buttonsDown' = {}
     ELSE button \in buttonsDown /\ buttonsDown' = buttonsDown \ {button}
  /\ UNCHANGED <<appVars, scale, pan, pointer>>
  /\ IF cropMode # None /\ cropAction # None
     THEN /\ cropAction' = None
          /\ cropDragStart' = None
          /\ UNCHANGED <<histVars, liveVars, selVars, dragVars, panVars, marqueeVars>>
     ELSE /\ UNCHANGED cropVars
          /\ SetSelection(IF isMarqueeSelecting /\ marqueeStart # None
                          THEN MarqueeSelection ELSE Selection)
          /\ IF isMarqueeSelecting
             THEN /\ isMarqueeSelecting' = FALSE
                  /\ marqueeStart' = None
                  /\ marqueeCurrent' = None
             ELSE UNCHANGED marqueeVars
          /\ UNCHANGED panStart
          /\ isPanning' = FALSE
          /\ IF button = 1
             THEN /\ temporaryTool' = None
                  /\ UNCHANGED <<isResizing, resizeStartDimensions, isDrawing>>
                  /\ IF isDragging
                     THEN /\ handleCommit
                          /\ isDragging' = FALSE
                          /\ dragStartPoint' = None
                          /\ dragStartImagePositions' = None
                          /\ draggedImageIds' = <<>>
                          /\ dragStartNotePositions' = None
                          /\ draggedNoteIds' = <<>>
                     ELSE UNCHANGED <<histVars, liveVars, isDragging, dragStartPoint,
                                      dragStartImagePositions, draggedImageIds,
                                      dragStartNotePositions, draggedNoteIds>>
             ELSE /\ temporaryTool' = IF isLeave THEN None ELSE temporaryTool
                  /\ isDragging' = FALSE
                  /\ isResizing' = FALSE
                  /\ isDrawing' = FALSE
                  /\ dragStartPoint' = None
                  /\ dragStartImagePositions' = None
                  /\ draggedImageIds' = <<>>
                  /\ dragStartNotePositions' = None
                  /\ draggedNoteIds' = <<>>
                  /\ resizeStartDimensions' = None
                  /\ IF isDrawing \/ isDragging \/ isResizing
                     THEN handleCommit
                     ELSE UNCHANGED <<histVars, liveVars>>

\* handleWheel: wheel notches that take the scale to s, zooming about the
\* pointer.
HandleWheel(s) ==
  /\ UNCHANGED ioVars
  /\ s # scale
  /\ ((pointer.x - pan.x) * s) % scale = 0
  /\ ((pointer.y - pan.y) * s) % scale = 0
  /\ scale' = s
  /\ pan' = [x |-> pointer.x - ((pointer.x - pan.x) * s) \div scale,
             y |-> pointer.y - ((pointer.y - pan.y) * s) \div scale]
  /\ UNCHANGED <<histVars, liveVars, selVars, appVars, dragVars, panVars, marqueeVars,
                 cropVars, pointer, buttonsDown>>

\* ------------------------------------------------------ crop session (App)
\* handleStartCrop, from the crop button shown for a single selected image.
HandleStartCrop ==
  /\ UNCHANGED ioVars
  /\ cropMode = None
  /\ Len(selectedImageIds) = 1
  /\ FindById(displayedImages, selectedImageIds[1]) # None
  /\ LET imageToCrop == FindById(displayedImages, selectedImageIds[1])[1]
     IN cropMode' = Some([imageId |-> imageToCrop.id,
                          rect |-> [x |-> 0, y |-> 0, width |-> imageToCrop.width,
                                    height |-> imageToCrop.height]])
  /\ UNCHANGED <<histVars, liveVars, selVars, editingNoteId, tool, appMode, nextId,
                 dragVars, panVars, marqueeVars, cropVars, viewVars>>

HandleCancelCrop ==
  /\ UNCHANGED ioVars
  /\ cropMode # None
  /\ cropMode' = None
  /\ UNCHANGED <<histVars, liveVars, selVars, editingNoteId, tool, appMode, nextId,
                 dragVars, panVars, marqueeVars, cropVars, viewVars>>

\* handleConfirmCrop putting the cropped image on top instead of mapping it in
\* place.
CroppedStateOnTop ==
  LET rect == cropMode[1].rect
      originalImage == FindById(images, cropMode[1].imageId)[1]
      updatedImage == [originalImage EXCEPT !.x = originalImage.x + rect.x,
                                            !.y = originalImage.y + rect.y,
                                            !.width = Px(rect.width \div Den),
                                            !.height = Px(rect.height \div Den)]
  IN [CurrentScene EXCEPT
        !.images = Append(SelectSeq(images, LAMBDA img : img.id # originalImage.id),
                          updatedImage)]

\* handleConfirmCrop with the cropped bitmap decoded at once: the bitmap has
\* the whole-pixel size of the rectangle, and no bitmap results when that is 0
\* pixels wide or high.
CroppedState ==
  LET rect == cropMode[1].rect
      originalImage == FindById(images, cropMode[1].imageId)[1]
      updatedImage == [originalImage EXCEPT !.x = originalImage.x + rect.x,
                                            !.y = originalImage.y + rect.y,
                                            !.width = Px(rect.width \div Den),
                                            !.height = Px(rect.height \div Den)]
  IN [CurrentScene EXCEPT
        !.images = [i \in 1..Len(images) |->
                      IF images[i].id = originalImage.id THEN updatedImage ELSE images[i]]]

ConfirmCropBranch ==
  IF FindById(images, cropMode[1].imageId) = None THEN "no-image"
  ELSE IF cropMode[1].rect.width <= 0 \/ cropMode[1].rect.height <= 0 THEN "cancel"
  ELSE IF cropMode[1].rect.width \div Den = 0 \/ cropMode[1].rect.height \div Den = 0
  THEN "no-bitmap"
  ELSE "crop"

HandleConfirmCrop ==
  /\ UNCHANGED ioVars
  /\ cropMode # None
  /\ cropMode' = IF ConfirmCropBranch \in {"cancel", "crop"} THEN None ELSE cropMode
  /\ IF ConfirmCropBranch = "crop"
     THEN /\ setState(CroppedState)
          /\ selectedImageIds' = <<cropMode[1].imageId>>
     ELSE UNCHANGED <<histVars, selectedImageIds>>
  /\ UNCHANGED <<liveVars, selectedNoteIds, referenceImageIds, editingNoteId, tool, appMode,
                 nextId, dragVars, panVars, marqueeVars, cropVars, viewVars>>

\* ----------------------------------------------------- inputs of the model
ImageSizes == {<<4, 4>>}
Texts == {<<>>, <<"a">>, <<"b">>}
Origin == [x |-> 0, y |-> 0]
EditTools == {"NOTE"}

DocImage == [id |-> 101, x |-> 0, y |-> 0, width |-> Px(4), height |-> Px(4)]
DocNote == [id |-> 102, x |-> 0, y |-> 0, width |-> Px(NOTE_DEFAULT_WIDTH),
            height |-> Px(NOTE_DEFAULT_HEIGHT), text |-> <<"a">>]
NoteDoc ==
  [state |-> [images |-> <<DocImage>>, paths |-> <<>>, notes |-> <<DocNote>>],
   meta |-> Some([appMode |-> "CANVAS", tool |-> "SELECTION",
                  selection |-> [img |-> <<101>>, note |-> <<102>>, ref |-> <<>>]])]
ImportDocs ==
  { [state |-> [images |-> <<DocImage>>, paths |-> <<>>, notes |-> <<>>], meta |-> None],
    NoteDoc }

Init ==
  /\ history = <<EmptyScene>>
  /\ index = 0
  /\ liveImages = None /\ livePaths = None /\ liveNotes = None
  /\ selectedImageIds = <<>> /\ selectedNoteIds = <<>> /\ referenceImageIds = <<>>
  /\ editingNoteId = None
  /\ cropMode = None
  /\ tool = "PAN"
  /\ appMode = "CANVAS"
  /\ nextId = 1
  /\ scale = 1
  /\ pan = [x |-> 0, y |-> 0]
  /\ pointer = [x |-> 0, y |-> 0]
  /\ buttonsDown = {}
  /\ isDragging = FALSE
  /\ isResizing = FALSE /\ resizeStartDimensions = None
  /\ isDrawing = FALSE
  /\ isPanning = FALSE /\ panStart = [x |-> 0, y |-> 0] /\ temporaryTool = None
  /\ draggedImageIds = <<>> /\ draggedNoteIds = <<>>
  /\ dragStartPoint = None
  /\ dragStartImagePositions = None /\ dragStartNotePositions = None
  /\ isMarqueeSelecting = FALSE
  /\ marqueeStart = None /\ marqueeCurrent = None
  /\ cropAction = None /\ cropDragStart = None
  /\ trail = <<>>
  /\ ops = 0
  /\ pushLog = <<>>
  /\ runBroken = FALSE
  /\ prompt = ""
  /\ apiProvider = "google"
  /\ falModelId = DEFAULT_FAL_MODEL_ID
  /\ isLoading = FALSE /\ isRemovingBackground = FALSE
  /\ error = None
  /\ falJobs = <<>>
  /\ falAutoDismissTimeouts = {}
  /\ requests = {}
  /\ calls = 0
  /\ exported = None
  /\ drops = {}

\* ------------------------------------------------- history engine behaviours
Next ==
  \/ \E sz \in ImageSizes :
       HandleFileChange(sz[1], sz[2]) /\ Observe("upload", Some(UploadedState(sz[1], sz[2])))
  \/ \E t \in EditTools :
       HandleToolChange(t) /\ Observe("tool", IF editingNoteId # None THEN CommitArg ELSE None)
  \/ NoteToolMouseDown(Origin) /\ Observe("note", Some(NotedState(Origin)))
  \/ HandleDoubleClick(Origin) /\ Observe("dblclick", None)
  \/ \E text \in Texts : HandleNoteTextChange(text) /\ Observe("text", None)
  \/ HandleNoteBlur /\ Observe("commit", CommitArg)
  \/ HandleClear /\ Observe("clear", Some(ClearedState))
  \/ HandleDelete /\ Observe("delete", Some(DeletedState))
  \/ Undo /\ Observe("undo", None)
  \/ Redo /\ Observe("redo", None)
  \/ \E doc \in ImportDocs : HandleImportSnapshot(doc) /\ Observe("import", None)

Spec == Init /\ [][Next]_vars

\* ---------------------------------------------- behaviours that fill history
\* One keystroke in the text area of the note being edited, typed while no
\* overlay is pending, so every commit follows exactly one keystroke.
EditedText ==
  LET hit == {i \in 1..Len(displayedNotes) : displayedNotes[i].id = editingNoteId[1]}
  IN displayedNotes[CHOOSE i \in hit : TRUE].text

TypeChar ==
  /\ editingNoteId # None
  /\ ~HasLive
  /\ \E i \in 1..Len(displayedNotes) : displayedNotes[i].id = editingNoteId[1]
  /\ Len(EditedText) < MaxPushes
  /\ HandleNoteTextChange(Append(EditedText, "a"))

NextCap ==
  \/ HandleImportSnapshot(NoteDoc) /\ ObserveCap("import", None)
  \/ HandleDoubleClick(Origin) /\ ObserveCap("dblclick", None)
  \/ TypeChar /\ ObserveCap("text", None)
  \/ HandleNoteBlur /\ ObserveCap("commit", CommitArg)
  \/ Undo /\ ObserveCap("undo", None)
  \/ Redo /\ ObserveCap("redo", None)

SpecCap == Init /\ [][NextCap]_vars

\* -------------------------------------------- pointer-interaction behaviours
Pt(x, y) == [x |-> x, y |-> y]
NoMods == [meta |-> FALSE, shift |-> FALSE]
Meta == [meta |-> TRUE, shift |-> FALSE]
Shift == [meta |-> FALSE, shift |-> TRUE]
Mods == {NoMods, Meta, Shift}

\* Two images as handleFileChange lays them out and a default-size note below.
ImageA == [id |-> 101, x |-> 0, y |-> 0, width |-> Px(40), height |-> Px(40)]
ImageB == [id |-> 103, x |-> Px(60), y |-> 0, width |-> Px(40), height |-> Px(40)]
NoteN == [id |-> 102, x |-> 0, y |-> Px(60), width |-> Px(NOTE_DEFAULT_WIDTH),
          height |-> Px(NOTE_DEFAULT_HEIGHT), text |-> <<"a">>]
CanvasScene == [images |-> <<ImageA, ImageB>>, paths |-> <<>>, notes |-> <<NoteN>>]
CanvasDoc(sel) ==
  [state |-> CanvasScene,
   meta |-> Some([appMode |-> "CANVAS", tool |-> "SELECTION", selection |-> sel])]
CanvasDocs ==
  { CanvasDoc([img |-> <<101>>, note |-> <<>>, ref |-> <<>>]),
    CanvasDoc([img |-> <<101>>, note |-> <<102>>, ref |-> <<>>]) }

\* Pointer positions: in image A, in image B, in the note, and two on empty
\* canvas.
CanvasPoints == {Pt(20, 20), Pt(80, 20), Pt(10, 100), Pt(120, 20), Pt(300, 20)}

NextCanvas ==
  \/ /\ buttonsDown = {}
     /\ \E doc \in CanvasDocs : HandleImportSnapshot(doc) /\ ObserveUi("import", None, "")
  \/ /\ buttonsDown = {}
     /\ \E s \in ZoomLevels : HandleWheel(s) /\ ObserveUi("wheel", None, "")
  \/ \E p \in CanvasPoints, mods \in Mods :
       HandleMouseDown(p, 0, mods) /\ ObserveUi("down", None, MouseDownBranch(p, 0, mods))
  \/ \E p \in CanvasPoints : HandleMouseMove(p) /\ ObserveUi("move", None, MouseMoveBranch)
  \/ HandleMouseUp(0, FALSE) /\ ObserveUi("up", MouseUpArg(0), MouseUpBranch(0))
  \/ HandleMouseUp(0, TRUE) /\ ObserveUi("leave", MouseUpArg(0), MouseUpBranch(0))

SpecCanvas == Init /\ [][NextCanvas]_vars

\* ------------------------------------------------------ crop behaviours
CropDoc ==
  [state |-> [images |-> <<ImageA>>, paths |-> <<>>, notes |-> <<>>],
   meta |-> Some([appMode |-> "CANVAS", tool |-> "SELECTION",
                  selection |-> [img |-> <<101>>, note |-> <<>>, ref |-> <<>>]])]

\* Pointer positions: the top-left corner of image A, inside it, on the middle
\* of its right side, its bottom-right corner, and right of it.
CropPoints == {Pt(0, 0), Pt(20, 20), Pt(40, 20), Pt(40, 40), Pt(100, 20)}

NextCrop ==
  \/ /\ buttonsDown = {}
     /\ HandleImportSnapshot(CropDoc) /\ ObserveUi("import", None, "")
  \/ /\ buttonsDown = {}
     /\ HandleStartCrop /\ ObserveUi("startCrop", None, "")
  \/ \E p \in CropPoints :
       HandleMouseDown(p, 0, NoMods) /\ ObserveUi("down", None, MouseDownBranch(p, 0, NoMods))
  \/ \E p \in CropPoints : HandleMouseMove(p) /\ ObserveUi("move", None, MouseMoveBranch)
  \/ HandleMouseUp(0, FALSE) /\ ObserveUi("up", MouseUpArg(0), MouseUpBranch(0))
  \/ /\ buttonsDown = {}
     /\ HandleCancelCrop /\ ObserveUi("cancelCrop", None, "")
  \/ /\ buttonsDown = {}
     /\ HandleConfirmCrop
     /\ ObserveUi("confirmCrop",
                  IF ConfirmCropBranch = "crop" THEN Some(CroppedState) ELSE None,
                  ConfirmCropBranch)

SpecCrop == Init /\ [][NextCrop]_vars

\* ------------------------------------------------------ keyboard shortcuts
\* handleKeyDown (window keydown listener).  The keys are e.key lowercased as
\* the switch does; the zoom keys and a focused input, textarea or select are
\* not modelled.
KeyTool(key) ==
  CASE key = "escape" -> "SELECTION"
    [] key = "v" -> "SELECTION"
    [] key = "f" -> "FREE_SELECTION"
    [] key = "h" -> "PAN"
    [] key = "b" -> "BRUSH"
    [] key = "e" -> "ERASE"
    [] key = "n" -> "NOTE"

\* The shortcuts reached when no crop session is active.
ShortcutBranch(key) ==
  IF editingNoteId # None THEN "editing"
  ELSE IF key = "escape" /\ tool = "NOTE" THEN "tool"
  ELSE IF key \in {"v", "f", "h", "e", "n"} THEN "tool"
  ELSE IF key = "b" THEN IF appMode # "CANVAS" THEN "tool" ELSE "none"
  ELSE IF key \in {"delete", "backspace"}
  THEN IF selectedImageIds = <<>> /\ selectedNoteIds = <<>> THEN "none" ELSE "delete"
  ELSE "none"

\* handleKeyDown without the crop check.
KeyDownBranchNoCrop(key) == ShortcutBranch(key)

KeyDownBranch(key) ==
  IF cropMode # None
  THEN IF key = "enter" THEN "crop-confirm"
       ELSE IF key = "escape" THEN "crop-cancel"
       ELSE "crop-ignored"
  ELSE ShortcutBranch(key)

HandleKeyDown(key) ==
  \E branch \in {KeyDownBranch(key)} :
    CASE branch = "crop-confirm" -> HandleConfirmCrop
      [] branch = "crop-cancel" -> HandleCancelCrop
      [] branch = "tool" -> HandleToolChange(KeyTool(key))
      [] branch = "delete" -> HandleDelete
      [] OTHER -> UNCHANGED <<progVars, ioVars>>

\* Keyboard and pointer input before and during a crop session: image A is
\* selected, any tool can be picked before the crop starts.
KeysDoc == CanvasDoc([img |-> <<101>>, note |-> <<>>, ref |-> <<>>])
Keys == {"enter", "escape", "v", "b", "e", "n", "delete"}
\* Pointer positions: inside image A, its bottom-right corner, in the note,
\* and on empty canvas.
KeysPoints == {Pt(20, 20), Pt(40, 40), Pt(10, 100), Pt(300, 20)}
MaxKeyOps == 6

ObserveKeys(name, arg, kind) ==
  /\ ops < MaxKeyOps
  /\ ops' = ops + 1
  /\ trail' = <<OpRecordK(name, arg, kind)>>
  /\ UNCHANGED <<pushLog, runBroken>>

NextKeys ==
  \/ /\ buttonsDown = {}
     /\ HandleImportSnapshot(KeysDoc) /\ ObserveKeys("import", None, "")
  \/ /\ buttonsDown = {}
     /\ HandleStartCrop /\ ObserveKeys("startCrop", None, "")
  \/ \E key \in Keys : HandleKeyDown(key) /\ ObserveKeys("key", None, KeyDownBranch(key))
  \/ \E p \in KeysPoints :
       HandleMouseDown(p, 0, NoMods) /\ ObserveKeys("down", None, MouseDownBranch(p, 0, NoMods))
  \/ /\ 0 \notin buttonsDown
     /\ \E p \in KeysPoints :
          NoteToolMouseDown(p) /\ ObserveKeys("note", Some(NotedState(p)), "note-create")
  \/ \E p \in KeysPoints : HandleMouseMove(p) /\ ObserveKeys("move", None, MouseMoveBranch)
  \/ HandleMouseUp(0, FALSE) /\ ObserveKeys("up", MouseUpArg(0), MouseUpBranch(0))
  \/ \E p \in KeysPoints : HandleDoubleClick(p) /\ ObserveKeys("dblclick", None, "")

SpecKeys == Init /\ [][NextKeys]_vars

\* Pointer input around the resize handle of the note: the documents of the
\* canvas behaviours and one with the note alone selected.
ResizeDocs == CanvasDocs \cup {CanvasDoc([img |-> <<>>, note |-> <<102>>, ref |-> <<>>])}
\* Pointer positions: in the note away from its handle, in the handle square
\* at its bottom-right corner, on empty canvas right of and below the note,
\* and on empty canvas right of image B.
ResizePoints == {Pt(10, 100), Pt(195, 155), Pt(300, 200), Pt(120, 20)}

NextResize ==
  \/ /\ buttonsDown = {}
     /\ \E doc \in ResizeDocs : HandleImportSnapshot(doc) /\ ObserveUi("import", None, "")
  \/ /\ buttonsDown = {}
     /\ \E s \in ZoomLevels : HandleWheel(s) /\ ObserveUi("wheel", None, "")
  \/ \E p \in ResizePoints, mods \in Mods :
       HandleMouseDown(p, 0, mods) /\ ObserveUi("down", None, MouseDownBranch(p, 0, mods))
  \/ \E p \in ResizePoints : HandleMouseMove(p) /\ ObserveUi("move", None, MouseMoveBranch)
  \/ HandleMouseUp(0, FALSE) /\ ObserveUi("up", MouseUpArg(0), MouseUpBranch(0))

SpecResize == Init /\ [][NextResize]_vars

\* Selection behaviours: the documents of the canvas behaviours, one saved
\* with image B as reference of image A, and one whose metadata lists three
\* reference ids, the selected image among them.
RefDocs ==
  CanvasDocs \cup { CanvasDoc([img |-> <<101>>, note |-> <<>>, ref |-> <<103>>]),
                    CanvasDoc([img |-> <<101>>, note |-> <<>>, ref |-> <<101, 103, 104>>]) }

NextRefs ==
  \/ /\ buttonsDown = {}
     /\ \E doc \in RefDocs : HandleImportSnapshot(doc) /\ ObserveUi("import", None, "")
  \/ \E p \in CanvasPoints, mods \in Mods :
       HandleMouseDown(p, 0, mods) /\ ObserveUi("down", None, MouseDownBranch(p, 0, mods))
  \/ \E p \in CanvasPoints : HandleMouseMove(p) /\ ObserveUi("move", None, MouseMoveBranch)
  \/ HandleMouseUp(0, FALSE) /\ ObserveUi("up", MouseUpArg(0), MouseUpBranch(0))
  \/ /\ buttonsDown = {}
     /\ HandleDelete /\ ObserveUi("delete", Some(DeletedState), "")

SpecRefs == Init /\ [][NextRefs]_vars

\* ======================================================= generation requests
\* handleGenerate and handleBackgroundRemoval are asynchronous: each call runs
\* to its first await, later steps run when the awaited promise settles, and
\* other handlers run in between.  A call in flight is a record of requests
\* holding what its closure captured; stage says what it awaits.
\*   provider: the provider call (for a queued call, the queue subscription
\*             and the download of the returned images)
\*   decode:   the decoding of the returned images, one at a time
\* The queue reports statuses in lifecycle order; the subscription resolves
\* only after it reported COMPLETED, reports nothing afterwards, and a call
\* whose queue reported a failure is rejected.
MaxCalls == 2
MaxGenOps == 6
MaxResults == 2

FAL_JOBS_KEPT == 9
PLACEMENT_GAP == 20
DEFAULT_PLACEMENT == 100
PLACEMENT_EXTRA_ATTEMPTS == 10

QueueStatuses == {"IN_QUEUE", "IN_PROGRESS", "COMPLETED", "FAILED", "CANCELLED"}
Prompts == {"", "p"}
Providers == {"google", "fal"}

mapFalStatusToJobStatus(status) ==
  CASE status = "IN_PROGRESS" -> "IN_PROGRESS"
    [] status = "COMPLETED" -> "COMPLETED"
    [] status \in {"FAILED", "CANCELLED", "CANCELED"} -> "FAILED"
    [] OTHER -> "IN_QUEUE"

StatusRank(status) ==
  CASE status = "NONE" -> 0
    [] status = "IN_QUEUE" -> 1
    [] status = "IN_PROGRESS" -> 2
    [] OTHER -> 3

isOverlapping(img1, img2) ==
  ~ \/ img1.x > img2.x + img2.width
    \/ img1.x + img1.width < img2.x
    \/ img1.y > img2.y + img2.height
    \/ img1.y + img1.height < img2.y

MapSeq(s, F(_)) == [i \in 1..Len(s) |-> F(s[i])]
LastN(s, n) == IF Len(s) <= n THEN s ELSE SubSeq(s, Len(s) - n + 1, Len(s))
SetMin(S) == CHOOSE m \in S : \A n \in S : m <= n
SetMax(S) == CHOOSE m \in S : \A n \in S : m >= n

\* ---------------------------------------------------------------- job list
JobIds(jobs) == {jobs[i].id : i \in 1..Len(jobs)}
JobById(jobs, id) == jobs[CHOOSE i \in 1..Len(jobs) : jobs[i].id = id]
\* The jobs that have finished either way.
SettledIds(jobs) ==
  {jobs[i].id : i \in {k \in 1..Len(jobs) : jobs[k].status \in {"COMPLETED", "FAILED"}}}

CompletedIds(jobs) == {jobs[i].id : i \in {k \in 1..Len(jobs) : jobs[k].status = "COMPLETED"}}

\* The effect clearing stale timers without arming new ones.
TimeoutsNeverArmed(timeoutMap, jobs) ==
  {id \in timeoutMap : id \in CompletedIds(jobs)}

\* The effect on falJobs: timers of jobs that are gone or no longer COMPLETED
\* are cleared, and every COMPLETED job without a timer gets one.
TimeoutsAfterEffect(timeoutMap, jobs) ==
  {id \in timeoutMap : id \in CompletedIds(jobs)} \cup CompletedIds(jobs)

setFalJobs(jobs) ==
  /\ falJobs' = jobs
  /\ falAutoDismissTimeouts' = TimeoutsAfterEffect(falAutoDismissTimeouts, jobs)

RemoveJob(jobs, jobId) == SelectSeq(jobs, LAMBDA job : job.id # jobId)

\* The submission appending the new job to the whole list.
JobsAfterSubmitKeepAll(jobs, jobId) ==
  Append(jobs, [id |-> jobId, status |-> "IN_QUEUE", logs |-> <<>>, error |-> None])

\* setFalJobs(prev => [...prev.slice(-9), newJob])
JobsAfterSubmit(jobs, jobId) ==
  Append(LastN(jobs, FAL_JOBS_KEPT),
         [id |-> jobId, status |-> "IN_QUEUE", logs |-> <<>>, error |-> None])

\* mergeFalLogMessages: the messages of the update that the job does not hold
\* yet are added after those it holds.
RECURSIVE mergeFalLogMessages(_, _)
mergeFalLogMessages(existing, updateLogs) ==
  IF updateLogs = <<>> THEN existing
  ELSE mergeFalLogMessages(
         IF Includes(existing, Head(updateLogs)) THEN existing
         ELSE Append(existing, Head(updateLogs)),
         Tail(updateLogs))

\* The log lines a queue update may carry: none, or one naming the status it
\* reports.
UpdateLogs(status) == {<<>>, <<status>>}

\* onQueueUpdate changing every tracked job.
JobsAfterQueueUpdateAll(jobs, jobId, status, updateLogs) ==
  MapSeq(jobs, LAMBDA job :
    [job EXCEPT !.status = mapFalStatusToJobStatus(status),
                !.logs = mergeFalLogMessages(@, updateLogs)])

\* onQueueUpdate
JobsAfterQueueUpdate(jobs, jobId, status, updateLogs) ==
  MapSeq(jobs, LAMBDA job :
    IF job.id # jobId THEN job
    ELSE [job EXCEPT !.status = mapFalStatusToJobStatus(status),
                     !.logs = mergeFalLogMessages(@, updateLogs)])

\* the update made when the provider call has resolved
JobsAfterResult(jobs, jobId) ==
  MapSeq(jobs, LAMBDA job :
    IF job.id # jobId THEN job
    ELSE IF job.status = "FAILED" THEN job
    ELSE [job EXCEPT !.status = "COMPLETED"])

\* the update made in the catch block
JobsAfterFailure(jobs, jobId, message) ==
  MapSeq(jobs, LAMBDA job :
    IF job.id # jobId THEN job
    ELSE [job EXCEPT !.status = "FAILED", !.error = Some(message)])

\* The timer callback of the auto-dismiss effect.
AutoDismiss(jobId) ==
  /\ jobId \in falAutoDismissTimeouts
  /\ falJobs' = RemoveJob(falJobs, jobId)
  /\ falAutoDismissTimeouts' =
       TimeoutsAfterEffect(falAutoDismissTimeouts \ {jobId}, RemoveJob(falJobs, jobId))
  /\ UNCHANGED <<progVars, promptVars, isLoading, isRemovingBackground, error, requests,
                 calls, exported, drops>>

\* handleDismissFalJob, offered by the queue panel for COMPLETED and FAILED jobs.
HandleDismissFalJob(jobId) ==
  /\ jobId \in JobIds(falJobs)
  /\ JobById(falJobs, jobId).status \in {"COMPLETED", "FAILED"}
  /\ falJobs' = RemoveJob(falJobs, jobId)
  /\ falAutoDismissTimeouts' =
       TimeoutsAfterEffect(falAutoDismissTimeouts \ {jobId}, RemoveJob(falJobs, jobId))
  /\ UNCHANGED <<progVars, promptVars, isLoading, isRemovingBackground, error, requests,
                 calls, exported, drops>>

\* ------------------------------------------------------------ prompt bar
SetPrompt(p) ==
  /\ cropMode = None
  /\ p # prompt
  /\ prompt' = p
  /\ UNCHANGED <<progVars, apiProvider, falModelId, isLoading, isRemovingBackground, error,
                 jobVars, requests, calls, exported, drops>>

SetApiProvider(provider) ==
  /\ cropMode = None
  /\ ~isLoading
  /\ provider # apiProvider
  /\ apiProvider' = provider
  /\ UNCHANGED <<progVars, prompt, falModelId, isLoading, isRemovingBackground, error,
                 jobVars, requests, calls, exported, drops>>

\* ---------------------------------------------------------- handleGenerate
primaryImageId == IF selectedImageIds = <<>> THEN None ELSE Some(selectedImageIds[1])
hasSingleImageSelected == Len(selectedImageIds) = 1

\* primaryImage is looked up in the committed images.
FindImage(imgs, id) ==
  LET hit == {i \in 1..Len(imgs) : imgs[i].id = id}
  IN IF hit = {} THEN None ELSE Some(imgs[CHOOSE i \in hit : \A j \in hit : i <= j])

\* primaryImage looked up in the displayed images.
primaryImageDisplayed ==
  IF primaryImageId = None THEN None ELSE FindImage(displayedImages, primaryImageId[1])

primaryImage == IF primaryImageId = None THEN None ELSE FindImage(images, primaryImageId[1])

\* The validation of handleGenerate: the message it rejects with, or None.
\* falNumImages stays within 1..4 (handleFalNumImagesChange and the import
\* clamp it), so the check of the image count never rejects.
GenerateRejection ==
  LET isTextToImage == primaryImageId = None
  IN IF prompt = ""
     THEN Some(IF isTextToImage THEN "Please describe the image you want to create."
               ELSE "Please write a prompt to describe your edit.")
     ELSE IF isTextToImage THEN None
     ELSE IF primaryImage = None THEN Some("Please select an image to edit.")
     ELSE IF apiProvider = "fal" /\ falModelId = REVE_TEXT_TO_IMAGE_MODEL_ID
       THEN Some("Reve Image only supports text-to-image generation.")
     ELSE IF appMode = "CANVAS" /\ tool \notin {"SELECTION", "FREE_SELECTION"}
       THEN Some("In Canvas Mode, please use the Select tool to perform a general image edit.")
     ELSE IF appMode \in {"ANNOTATE", "INPAINT"} /\ paths = <<>>
       THEN Some("Please use the Brush tool to draw before generating.")
     ELSE None

\* referenceCanvasImages: the reference images found in the committed scene.
ReferenceCanvasImages ==
  MapSeq(SelectSeq(MapSeq(referenceImageIds, LAMBDA id : FindImage(images, id)),
                   LAMBDA o : o # None),
         LAMBDA o : o[1])

ShouldCompose ==
  \E i \in 1..Len(ReferenceCanvasImages) :
    isOverlapping(primaryImage[1], ReferenceCanvasImages[i])

\* imagesToCompose, in scene order, when a composite is rasterized.
ImageIdsToCompose ==
  IF primaryImage = None \/ ~ShouldCompose THEN <<>>
  ELSE LET ids == {primaryImage[1].id} \cup
                    {ReferenceCanvasImages[i].id : i \in 1..Len(ReferenceCanvasImages)}
           composed == SelectSeq(images, LAMBDA img : img.id \in ids)
       IN [i \in 1..Len(composed) |-> composed[i].id]

\* referenceImagesForAPI, by the ids of the images sent.
\* referenceImagesForAPI always holding the reference images.
ReferencesAlwaysSent ==
  IF primaryImage = None THEN <<>>
  ELSE [i \in 1..Len(ReferenceCanvasImages) |-> ReferenceCanvasImages[i].id]

ReferencesForApi ==
  IF primaryImage = None \/ ShouldCompose THEN <<>>
  ELSE [i \in 1..Len(ReferenceCanvasImages) |-> ReferenceCanvasImages[i].id]

\* The source image sent to the provider: the primary image, or the bounding
\* box of the primary image and its references when a reference overlaps it.
SourceForApi ==
  LET primary == primaryImage[1]
      refs == SelectSeq(MapSeq(referenceImageIds, LAMBDA id : FindImage(images, id)),
                        LAMBDA o : o # None)
      shouldCompose == \E i \in 1..Len(refs) : isOverlapping(primary, refs[i][1])
      ids == {primary.id} \cup {refs[i][1].id : i \in 1..Len(refs)}
      composed == SelectSeq(images, LAMBDA img : img.id \in ids)
      idx == 1..Len(composed)
      minX == SetMin({composed[i].x : i \in idx})
      minY == SetMin({composed[i].y : i \in idx})
      maxX == SetMax({composed[i].x + composed[i].width : i \in idx})
      maxY == SetMax({composed[i].y + composed[i].height : i \in idx})
  IN IF shouldCompose
     THEN [x |-> minX, y |-> minY, width |-> maxX - minX, height |-> maxY - minY]
     ELSE [x |-> primary.x, y |-> primary.y, width |-> primary.width, height |-> primary.height]

PlacementOrigin ==
  IF primaryImageId = None
  THEN IF images = <<>>
       THEN [x |-> Px(DEFAULT_PLACEMENT), y |-> Px(DEFAULT_PLACEMENT)]
       ELSE [x |-> SetMax({images[i].x + images[i].width : i \in 1..Len(images)})
                     + Px(PLACEMENT_GAP),
             y |-> SetMin({images[i].y : i \in 1..Len(images)})]
  ELSE [x |-> SourceForApi.x + SourceForApi.width + Px(PLACEMENT_GAP), y |-> SourceForApi.y]

NoImage == [id |-> 0, x |-> 0, y |-> 0, width |-> 0, height |-> 0]

\* sourceImageForAPI as a request carries it: the primary image, a composite
\* (which has no id of its own), or nothing for a text-to-image request.
RequestSource ==
  IF primaryImage = None THEN NoImage
  ELSE [id |-> IF ShouldCompose THEN 0 ELSE primaryImage[1].id,
        x |-> SourceForApi.x, y |-> SourceForApi.y,
        width |-> SourceForApi.width, height |-> SourceForApi.height]

\* handleGenerate rejecting the request with a validation message.
RejectGenerateAddsJob ==
  /\ error' = GenerateRejection
  /\ setFalJobs(JobsAfterSubmit(falJobs, nextId))
  /\ nextId' = nextId + 1
  /\ UNCHANGED <<histVars, liveVars, selVars, editingNoteId, cropMode, tool, appMode,
                 dragVars, panVars, marqueeVars, cropVars, viewVars, promptVars, isLoading,
                 isRemovingBackground, requests, calls, exported, drops>>

RejectGenerate ==
  /\ error' = GenerateRejection
  /\ UNCHANGED <<progVars, promptVars, isLoading, isRemovingBackground, jobVars,
                 requests, calls, exported, drops>>

\* handleGenerate accepting the request, up to its first await.
SubmitGenerate ==
  /\ calls' = calls + 1
  /\ error' = None
  /\ IF apiProvider = "fal"
     THEN /\ setFalJobs(JobsAfterSubmit(falJobs, nextId))
          /\ nextId' = nextId + 1
          /\ UNCHANGED isLoading
     ELSE /\ isLoading' = TRUE
          /\ UNCHANGED <<jobVars, nextId>>
  /\ requests' = requests \cup
       {[rid |-> calls + 1, kind |-> "generate", usingFal |-> apiProvider = "fal",
         jobId |-> IF apiProvider = "fal" THEN nextId ELSE 0,
         stage |-> "provider", queue |-> "NONE", origin |-> PlacementOrigin,
         pending |-> 0, done |-> <<>>, source |-> RequestSource, seen |-> <<>>,
         references |-> ReferencesForApi, composed |-> ImageIdsToCompose, mask |-> paths]}
  /\ UNCHANGED <<histVars, liveVars, selVars, editingNoteId, cropMode, tool, appMode,
                 dragVars, panVars, marqueeVars, cropVars, viewVars, promptVars,
                 isRemovingBackground, exported, drops>>

\* handleGenerate, as the prompt bar and the submit shortcut call it (not
\* while a call of the direct provider is loading, not in a crop session).
HandleGenerate ==
  /\ cropMode = None
  /\ ~isLoading
  /\ IF GenerateRejection # None THEN RejectGenerate ELSE SubmitGenerate

\* A queue update delivered to onQueueUpdate of a queued call.
QueueUpdate(r, status, updateLogs) ==
  /\ r \in requests
  /\ r.kind = "generate" /\ r.usingFal /\ r.stage = "provider"
  /\ r.queue \notin {"COMPLETED", "FAILED"}
  /\ StatusRank(mapFalStatusToJobStatus(status)) >= StatusRank(r.queue)
  /\ setFalJobs(JobsAfterQueueUpdate(falJobs, r.jobId, status, updateLogs))
  /\ requests' = (requests \ {r}) \cup {[r EXCEPT !.queue = mapFalStatusToJobStatus(status)]}
  /\ UNCHANGED <<progVars, promptVars, isLoading, isRemovingBackground, error, calls,
                 exported, drops>>

\* The provider call resolves with n images.
ProviderResult(r, n) ==
  /\ r \in requests
  /\ r.stage = "provider"
  /\ r.usingFal => r.queue = "COMPLETED"
  /\ IF r.usingFal THEN setFalJobs(JobsAfterResult(falJobs, r.jobId)) ELSE UNCHANGED jobVars
  /\ requests' = (requests \ {r}) \cup {[r EXCEPT !.stage = "decode", !.pending = n]}
  /\ UNCHANGED <<progVars, promptVars, isLoading, isRemovingBackground, error, calls,
                 exported, drops>>

\* The catch and finally blocks of the two handlers.
FailRequest(r, message) ==
  /\ IF r.usingFal THEN setFalJobs(JobsAfterFailure(falJobs, r.jobId, message))
     ELSE UNCHANGED jobVars
  /\ error' = Some(message)
  /\ isLoading' = IF r.kind = "generate" /\ ~r.usingFal THEN FALSE ELSE isLoading
  /\ isRemovingBackground' = IF r.kind = "removeBg" THEN FALSE ELSE isRemovingBackground
  /\ requests' = requests \ {r}
  /\ UNCHANGED <<progVars, promptVars, calls, exported, drops>>

\* The provider call is rejected (provider, network or queue failure, or a
\* failed download of a returned image).
ProviderFail(r) ==
  /\ r \in requests
  /\ r.stage = "provider"
  /\ FailRequest(r, "provider error")

\* loadImageFromDataUrl rejects for the image being decoded.
DecodeFail(r) ==
  /\ r \in requests
  /\ r.stage = "decode"
  /\ FailRequest(r, "Failed to load image.")

\* The images of a generation, stacked below the placement origin.
RECURSIVE StackHeight(_)
StackHeight(imgs) ==
  IF imgs = <<>> THEN 0
  ELSE Head(imgs).height + Px(PLACEMENT_GAP) + StackHeight(Tail(imgs))

GeneratedImage(r, w, h) ==
  [id |-> nextId, x |-> r.origin.x, y |-> r.origin.y + StackHeight(r.done),
   width |-> Px(w), height |-> Px(h)]

GeneratedState(newImages) == [CurrentScene EXCEPT !.images = images \o newImages]

\* DecodeGenerated committing every image as soon as it is decoded.
DecodeGeneratedEach(r, w, h) ==
  /\ r \in requests
  /\ r.kind = "generate" /\ r.stage = "decode"
  /\ nextId' = nextId + 1
  /\ setState(GeneratedState(<<GeneratedImage(r, w, h)>>))
  /\ IF r.pending > 1
     THEN /\ requests' = (requests \ {r}) \cup
               {[r EXCEPT !.pending = r.pending - 1,
                          !.done = Append(r.done, GeneratedImage(r, w, h))]}
          /\ UNCHANGED <<referenceImageIds, isLoading>>
     ELSE /\ requests' = requests \ {r}
          /\ referenceImageIds' = <<>>
          /\ isLoading' = IF r.usingFal THEN isLoading ELSE FALSE
  /\ UNCHANGED <<liveVars, selectedImageIds, selectedNoteIds, editingNoteId, cropMode, tool,
                 appMode, dragVars, panVars, marqueeVars, cropVars, viewVars, promptVars,
                 isRemovingBackground, error, jobVars, calls, exported, drops>>

\* One returned image of a generation decodes; after the last one the images
\* are committed.
DecodeGenerated(r, w, h) ==
  /\ r \in requests
  /\ r.kind = "generate" /\ r.stage = "decode"
  /\ nextId' = nextId + 1
  /\ IF r.pending > 1
     THEN /\ requests' = (requests \ {r}) \cup
               {[r EXCEPT !.pending = r.pending - 1,
                          !.done = Append(r.done, GeneratedImage(r, w, h))]}
          /\ UNCHANGED <<histVars, referenceImageIds, isLoading>>
     ELSE /\ requests' = requests \ {r}
          /\ setState(GeneratedState(Append(r.done, GeneratedImage(r, w, h))))
          /\ referenceImageIds' = <<>>
          /\ isLoading' = IF r.usingFal THEN isLoading ELSE FALSE
  /\ UNCHANGED <<liveVars, selectedImageIds, selectedNoteIds, editingNoteId, cropMode, tool,
                 appMode, dragVars, panVars, marqueeVars, cropVars, viewVars, promptVars,
                 isRemovingBackground, error, jobVars, calls, exported, drops>>

\* ------------------------------------------------- handleBackgroundRemoval
RemovalRejection ==
  IF ~hasSingleImageSelected \/ primaryImageId = None
  THEN Some("Please select an image to remove the background.")
  ELSE IF primaryImage = None
  THEN Some("Selected image not found. Please select another image.")
  ELSE None

HandleBackgroundRemoval ==
  /\ ~isRemovingBackground /\ ~isLoading
  /\ IF RemovalRejection # None
     THEN /\ error' = RemovalRejection
          /\ UNCHANGED <<progVars, promptVars, isLoading, isRemovingBackground, jobVars,
                         requests, calls, exported, drops>>
     ELSE /\ calls < MaxCalls
          /\ calls' = calls + 1
          /\ error' = None
          /\ isRemovingBackground' = TRUE
          /\ requests' = requests \cup
               {[rid |-> calls + 1, kind |-> "removeBg", usingFal |-> FALSE, jobId |-> 0,
                 stage |-> "provider", queue |-> "NONE", origin |-> [x |-> 0, y |-> 0],
                 pending |-> 0, done |-> <<>>, source |-> primaryImage[1],
                 seen |-> displayedImages, references |-> <<>>, composed |-> <<>>,
                 mask |-> <<>>]}
          /\ UNCHANGED <<progVars, promptVars, isLoading, jobVars, exported, drops>>

\* The placement loop: the first row below the source image, at most
\* existingImages.length + 10 rows down, where the result overlaps no image the
\* call saw when it started; the row after the last one tried if there is none.
RemovalImage(r, w, h) ==
  LET maxAttempts == Len(r.seen) + PLACEMENT_EXTRA_ATTEMPTS
      candidate(k) == [id |-> nextId,
                       x |-> r.source.x + r.source.width + Px(PLACEMENT_GAP),
                       y |-> r.source.y + k * (Px(h) + Px(PLACEMENT_GAP)),
                       width |-> Px(w), height |-> Px(h)]
      free == {k \in 0..maxAttempts :
                 ~ \E i \in 1..Len(r.seen) : isOverlapping(r.seen[i], candidate(k))}
  IN candidate(IF free = {} THEN maxAttempts + 1 ELSE SetMin(free))

DecodeRemoval(r, w, h) ==
  /\ r \in requests
  /\ r.kind = "removeBg" /\ r.stage = "decode"
  /\ nextId' = nextId + 1
  /\ requests' = requests \ {r}
  /\ setState(GeneratedState(<<RemovalImage(r, w, h)>>))
  /\ SetSelection([img |-> <<nextId>>, note |-> <<>>, ref |-> <<>>])
  /\ isRemovingBackground' = FALSE
  /\ UNCHANGED <<liveVars, editingNoteId, cropMode, tool, appMode, dragVars, panVars,
                 marqueeVars, cropVars, viewVars, promptVars, isLoading, error, jobVars,
                 calls, exported, drops>>

\* ---------------------------------------------------------- handleFilesDrop
MaxDrops == 2
MaxFiles == 2
DROP_OFFSET == 20

DropPoints == {[x |-> Px(50), y |-> Px(50)]}

\* handleFilesDrop with n image files among the dropped ones: a reader is
\* started for each; open holds the indices of the files still being read or
\* decoded.
HandleFilesDrop(n, point) ==
  /\ n > 0
  /\ calls < MaxDrops
  /\ calls' = calls + 1
  /\ drops' = drops \cup {[did |-> calls + 1, point |-> point, total |-> n,
                           open |-> 0..(n - 1), newImages |-> <<>>, imagesProcessed |-> 0]}
  /\ UNCHANGED <<progVars, promptVars, isLoading, isRemovingBackground, error, jobVars,
                 requests, exported>>

DroppedImage(d, fileIndex, w, h) ==
  [id |-> nextId,
   x |-> d.point.x - (Px(w) \div 2) + Px(fileIndex * DROP_OFFSET),
   y |-> d.point.y - (Px(h) \div 2) + Px(fileIndex * DROP_OFFSET),
   width |-> Px(w), height |-> Px(h)]

DroppedState(newImages) ==
  [CurrentScene EXCEPT !.images = images \o newImages, !.paths = <<>>]

\* img.onload of one dropped file.
FileLoaded(d, fileIndex, w, h) ==
  /\ d \in drops /\ fileIndex \in d.open
  /\ nextId' = nextId + 1
  /\ IF d.imagesProcessed + 1 = d.total
     THEN /\ setState(DroppedState(Append(d.newImages, DroppedImage(d, fileIndex, w, h))))
          /\ SetSelection([img |-> <<nextId>>, note |-> <<>>, ref |-> <<>>])
          /\ tool' = "SELECTION"
          /\ drops' = drops \ {d}
     ELSE /\ drops' = (drops \ {d}) \cup
               {[d EXCEPT !.open = d.open \ {fileIndex},
                          !.newImages = Append(d.newImages, DroppedImage(d, fileIndex, w, h)),
                          !.imagesProcessed = d.imagesProcessed + 1]}
          /\ UNCHANGED <<histVars, selVars, tool>>
  /\ UNCHANGED <<liveVars, editingNoteId, cropMode, appMode, dragVars, panVars, marqueeVars,
                 cropVars, viewVars, promptVars, isLoading, isRemovingBackground, error,
                 jobVars, requests, calls, exported>>

\* The reader or the decoder of one dropped file fails: neither has an error
\* handler, so no callback of the drop runs for this file.
FileFailed(d, fileIndex) ==
  /\ d \in drops /\ fileIndex \in d.open
  /\ drops' = (drops \ {d}) \cup {[d EXCEPT !.open = d.open \ {fileIndex}]}
  /\ UNCHANGED <<progVars, promptVars, isLoading, isRemovingBackground, error, jobVars,
                 requests, calls, exported>>

\* ----------------------------------------------- generation behaviours
\* The observation kept in the generation behaviours: the last step.  Timer
\* callbacks are not counted as handler runs.
ObserveGen(name, arg, kind) ==
  /\ ops < MaxGenOps
  /\ ops' = ops + 1
  /\ trail' = <<OpRecordK(name, arg, kind)>>
  /\ UNCHANGED <<pushLog, runBroken>>

\* The same for a step of a call in flight; req is that call as it was.
ObserveCall(name, arg, r) ==
  /\ ops < MaxGenOps
  /\ ops' = ops + 1
  /\ trail' = <<[OpRecordK(name, arg, r.kind) EXCEPT !.req = Some(r)]>>
  /\ UNCHANGED <<pushLog, runBroken>>

ObserveTimer(name) ==
  /\ trail' = <<OpRecordK(name, None, "")>>
  /\ UNCHANGED <<ops, pushLog, runBroken>>

\* Image C overlaps image A.
ImageC == [id |-> 104, x |-> Px(20), y |-> 0, width |-> Px(40), height |-> Px(40)]

\* Image D touches the right edge of image A.
ImageD == [id |-> 105, x |-> Px(40), y |-> 0, width |-> Px(40), height |-> Px(40)]

GenDoc(imgs, mode, t, provider, model, sel, refs) ==
  [state |-> [images |-> imgs, paths |-> <<>>, notes |-> <<>>],
   meta |-> Some([appMode |-> mode, tool |-> t, prompt |-> "p", apiProvider |-> provider,
                  falModelId |-> model,
                  selection |-> [img |-> sel, note |-> <<>>, ref |-> refs]])]

\* An image selected for a queued edit; the same with an overlapping
\* reference, with a reference apart from it, with both, with a reference that
\* touches it; the wrong tool; a selected id that is not in the scene; an
\* inpaint session without a mask; a text-to-image model with a selection.
GenDocs ==
  { GenDoc(<<ImageA>>, "CANVAS", "SELECTION", "fal", NANO_BANANA_MODEL_ID, <<101>>, <<>>),
    GenDoc(<<ImageA, ImageC>>, "CANVAS", "SELECTION", "google", NANO_BANANA_MODEL_ID,
           <<101>>, <<104>>),
    GenDoc(<<ImageA, ImageB>>, "CANVAS", "SELECTION", "google", NANO_BANANA_MODEL_ID,
           <<101>>, <<103>>),
    GenDoc(<<ImageB, ImageC, ImageA>>, "CANVAS", "SELECTION", "google", NANO_BANANA_MODEL_ID,
           <<101>>, <<103, 104>>),
    GenDoc(<<ImageA, ImageD>>, "CANVAS", "SELECTION", "google", NANO_BANANA_MODEL_ID,
           <<101>>, <<105>>),
    GenDoc(<<ImageA>>, "CANVAS", "PAN", "google", NANO_BANANA_MODEL_ID, <<101>>, <<>>),
    GenDoc(<<ImageA>>, "CANVAS", "SELECTION", "google", NANO_BANANA_MODEL_ID, <<999>>, <<>>),
    GenDoc(<<ImageA>>, "INPAINT", "BRUSH", "google", NANO_BANANA_MODEL_ID, <<101>>, <<>>),
    GenDoc(<<ImageA>>, "CANVAS", "SELECTION", "fal", REVE_TEXT_TO_IMAGE_MODEL_ID,
           <<101>>, <<>>) }

JobIdRange == 1..(MaxCalls * (MaxResults + 1))

GenKind == IF GenerateRejection # None THEN "rejected" ELSE "submitted"
RemovalKind == IF RemovalRejection # None THEN "rejected" ELSE "submitted"

NextGen ==
  \/ /\ ops = 0
     /\ \E doc \in GenDocs : HandleImportSnapshot(doc) /\ ObserveGen("import", None, "")
  \/ \E p \in Prompts : SetPrompt(p) /\ ObserveGen("prompt", None, "")
  \/ \E provider \in Providers : SetApiProvider(provider) /\ ObserveGen("provider", None, "")
  \/ /\ GenerateRejection = None => calls < MaxCalls
     /\ HandleGenerate /\ ObserveGen("generate", None, GenKind)
  \/ \E r \in requests, status \in QueueStatuses :
       \E updateLogs \in UpdateLogs(status) :
         QueueUpdate(r, status, updateLogs) /\ ObserveCall("queue", None, r)
  \/ \E r \in requests, n \in 1..MaxResults :
       /\ r.kind = "removeBg" => n = 1
       /\ ProviderResult(r, n) /\ ObserveCall("result", None, r)
  \/ \E r \in requests : ProviderFail(r) /\ ObserveCall("fail", None, r)
  \/ \E r \in requests : DecodeFail(r) /\ ObserveCall("fail", None, r)
  \/ \E r \in requests, sz \in ImageSizes :
       /\ DecodeGenerated(r, sz[1], sz[2])
       /\ ObserveCall("decode",
                      IF r.pending > 1 THEN None
                      ELSE Some(GeneratedState(Append(r.done, GeneratedImage(r, sz[1], sz[2])))),
                      r)
  \/ HandleBackgroundRemoval /\ ObserveGen("removeBg", None, RemovalKind)
  \/ \E r \in requests, sz \in ImageSizes :
       /\ DecodeRemoval(r, sz[1], sz[2])
       /\ ObserveCall("decode", Some(GeneratedState(<<RemovalImage(r, sz[1], sz[2])>>)), r)
  \/ \E jobId \in JobIdRange : AutoDismiss(jobId) /\ ObserveTimer("autoDismiss")
  \/ \E jobId \in JobIdRange : HandleDismissFalJob(jobId) /\ ObserveGen("dismiss", None, "")
  \/ Undo /\ ObserveGen("undo", None, "")

SpecGen == Init /\ [][NextGen]_vars

\* The event loop runs every timer callback that is due.
SpecGenLive ==
  /\ Init
  /\ [][NextGen]_vars
  /\ \A jobId \in JobIdRange : WF_vars(AutoDismiss(jobId) /\ ObserveTimer("autoDismiss"))

\* ------------------------------------------------ job list behaviours
\* Queued generations submitted one after another, each of which is rejected
\* by the provider, before or after its queue reported completion; nothing is
\* committed to the scene.
MaxJobCalls == 11

ObserveJob(name, arg) ==
  /\ trail' = <<OpRecordK(name, arg, "")>>
  /\ UNCHANGED <<ops, pushLog, runBroken>>

JobCallRange == 1..MaxJobCalls

NextJobs ==
  \/ /\ trail = <<>>
     /\ HandleImportSnapshot(GenDoc(<<ImageA>>, "CANVAS", "SELECTION", "fal",
                                    NANO_BANANA_MODEL_ID, <<101>>, <<>>))
     /\ ObserveJob("import", None)
  \/ /\ requests = {} /\ calls < MaxJobCalls
     /\ HandleGenerate /\ ObserveJob("generate", None)
  \/ \E r \in requests, status \in QueueStatuses :
       QueueUpdate(r, status, <<>>) /\ ObserveJob("queue", None)
  \/ \E r \in requests : ProviderFail(r) /\ ObserveJob("fail", None)
  \/ \E jobId \in JobCallRange : AutoDismiss(jobId) /\ ObserveJob("autoDismiss", None)
  \/ \E jobId \in JobCallRange :
       HandleDismissFalJob(jobId) /\ ObserveJob("dismiss", Some(jobId))

SpecJobs == Init /\ [][NextJobs]_vars

\* ------------------------------------------------------ snapshot documents
\* A snapshot file as handleImportSnapshotFromFile reads it.  form tells how
\* far the top level is valid; a field of an entry is None when it is absent
\* or of the wrong type (for an id: also when it is the empty string).
\* usable = the image entry is an object with a string dataUrl, decodes = that
\* dataUrl loads as an image of the given natural size.
IMPORT_NOTE_WIDTH == 200
IMPORT_NOTE_HEIGHT == 120

OrElse(field, d) == IF field # None THEN field[1] ELSE d

\* buildSnapshot writing an image without its id.
SerializeImageNoId(img) ==
  [usable |-> TRUE, decodes |-> TRUE, id |-> None, x |-> Some(img.x),
   y |-> Some(img.y), width |-> Some(img.width), height |-> Some(img.height),
   naturalWidth |-> img.width, naturalHeight |-> img.height]

\* buildSnapshot
SerializeImage(img) ==
  [usable |-> TRUE, decodes |-> TRUE, id |-> Some(img.id), x |-> Some(img.x),
   y |-> Some(img.y), width |-> Some(img.width), height |-> Some(img.height),
   naturalWidth |-> img.width, naturalHeight |-> img.height]

SerializeNote(note) ==
  [id |-> Some(note.id), x |-> Some(note.x), y |-> Some(note.y), width |-> Some(note.width),
   height |-> Some(note.height), text |-> Some(note.text)]

\* A path as the snapshot holds it: the points copied one by one.
SerializePath(path) ==
  [points |-> Some(MapSeq(path.points, Some)), tool |-> Some(path.tool)]

buildSnapshot ==
  [form |-> "ok",
   images |-> MapSeq(displayedImages, SerializeImage),
   notes |-> MapSeq(displayedNotes, SerializeNote),
   paths |-> MapSeq(displayedPaths, SerializePath),
   meta |-> Some([appMode |-> appMode, tool |-> tool, prompt |-> prompt,
                  apiProvider |-> apiProvider, falModelId |-> falModelId,
                  selection |-> [img |-> selectedImageIds, note |-> selectedNoteIds,
                                 ref |-> referenceImageIds]])]

\* handleExportSnapshot writing the document.
HandleExportSnapshot ==
  /\ exported' = Some(buildSnapshot)
  /\ error' = None
  /\ UNCHANGED <<progVars, promptVars, isLoading, isRemovingBackground, jobVars, requests,
                 calls, drops>>

\* handleExportSnapshot when the file of an image cannot be read.
ExportFail ==
  /\ displayedImages # <<>>
  /\ error' = Some("Unable to serialize image.")
  /\ UNCHANGED <<progVars, promptVars, isLoading, isRemovingBackground, jobVars, requests,
                 calls, exported, drops>>

\* The error thrown while the document is parsed and converted, None when
\* there is none.  The check of an entry runs before any image is loaded, so
\* the first unusable entry is reported before any load failure.
ImportError(raw) ==
  LET unusable == {i \in 1..Len(raw.images) : ~raw.images[i].usable}
      undecodable == {i \in 1..Len(raw.images) : ~raw.images[i].decodes}
  IN IF raw.form = "unparsable" THEN Some("Unexpected token in JSON")
     ELSE IF raw.form = "noState" THEN Some("Snapshot file is invalid.")
     ELSE IF raw.form = "notArrays" THEN Some("Snapshot data is incomplete.")
     ELSE IF unusable # {}
       THEN Some("Snapshot image at index " \o ToString(SetMin(unusable) - 1) \o " is invalid.")
     ELSE IF undecodable # {} THEN Some("Failed to load image.")
     ELSE None

\* The number of entries before entry i that get an id from crypto.randomUUID.
FreshBefore(entries, i) == Cardinality({k \in 1..(i - 1) : entries[k].id = None})

RestoredImages(raw, base) ==
  [i \in 1..Len(raw.images) |->
     LET img == raw.images[i]
     IN [id |-> OrElse(img.id, base + FreshBefore(raw.images, i)),
         x |-> OrElse(img.x, 0), y |-> OrElse(img.y, 0),
         width |-> OrElse(img.width, img.naturalWidth),
         height |-> OrElse(img.height, img.naturalHeight)]]

SanitizedNotes(raw, base) ==
  [i \in 1..Len(raw.notes) |->
     LET note == raw.notes[i]
     IN [id |-> OrElse(note.id, base + FreshBefore(raw.notes, i)),
         x |-> OrElse(note.x, 0), y |-> OrElse(note.y, 0),
         width |-> OrElse(note.width, Px(IMPORT_NOTE_WIDTH)),
         height |-> OrElse(note.height, Px(IMPORT_NOTE_HEIGHT)),
         text |-> OrElse(note.text, <<>>)]]

FreshCount(raw) ==
  FreshBefore(raw.images, Len(raw.images) + 1) + FreshBefore(raw.notes, Len(raw.notes) + 1)

\* sanitizedPaths: every path entry becomes a new path object holding the
\* entries of its points that are points (none when points is not an array)
\* and its tool, or Brush when that is not a tool.
ToolValues ==
  {"SELECTION", "PAN", "ANNOTATE", "INPAINT", "BRUSH", "FREE_SELECTION", "NOTE", "ERASE"}

SanitizedPaths(raw) ==
  [i \in 1..Len(raw.paths) |->
     LET rawPoints == Coalesce(raw.paths[i].points, <<>>)
         valid == SelectSeq(rawPoints, LAMBDA point : point # None)
     IN [ref |-> i,
         points |-> [k \in 1..Len(valid) |-> valid[k][1]],
         tool |-> IF raw.paths[i].tool # None /\ raw.paths[i].tool[1] \in ToolValues
                  THEN raw.paths[i].tool[1] ELSE "BRUSH"]]

\* nextState and meta of the import; base is the first fresh id.
ConvertedDoc(raw, base) ==
  [state |-> [images |-> RestoredImages(raw, base),
              paths |-> SanitizedPaths(raw),
              notes |-> SanitizedNotes(raw, base + FreshBefore(raw.images,
                                                               Len(raw.images) + 1))],
   meta |-> raw.meta]

\* The catch block of the import run after the history has been reset.
ImportFailureAfterReset(raw) ==
  /\ error' = ImportError(raw)
  /\ ClearLive
  /\ history' = <<EmptyScene>>
  /\ index' = 0
  /\ UNCHANGED <<selVars, appVars, dragVars, panVars, marqueeVars, cropVars, viewVars,
                 promptVars, isLoading, isRemovingBackground, jobVars, requests, calls,
                 exported, drops>>

\* The catch block of the import.
ImportFailure(raw) ==
  /\ error' = ImportError(raw)
  /\ UNCHANGED <<progVars, promptVars, isLoading, isRemovingBackground, jobVars, requests,
                 calls, exported, drops>>

\* handleImportSnapshotFromFile at the moment the file has been read and its
\* images have been loaded or one of them has failed: every state update of
\* the handler is made after its last await.
HandleImportSnapshotFromFile(raw) ==
  IF ImportError(raw) # None
  THEN ImportFailure(raw)
  ELSE /\ ApplySnapshot(ConvertedDoc(raw, nextId))
       /\ nextId' = nextId + FreshCount(raw)

\* ---------------------------------------------------- file drop behaviours
\* Drops made one after another on an empty canvas, each file of a drop
\* loading or failing in any order.
FileIndices == 0..(MaxFiles - 1)

NextDrop ==
  \/ \E n \in 1..MaxFiles, point \in DropPoints :
       /\ \A d \in drops : d.open = {}
       /\ HandleFilesDrop(n, point) /\ ObserveJob("drop", None)
  \/ \E d \in drops, fileIndex \in FileIndices, sz \in ImageSizes :
       FileLoaded(d, fileIndex, sz[1], sz[2]) /\ ObserveJob("fileLoaded", None)
  \/ \E d \in drops, fileIndex \in FileIndices :
       FileFailed(d, fileIndex) /\ ObserveJob("fileFailed", None)
  \/ Undo /\ ObserveJob("undo", None)
  \/ Redo /\ ObserveJob("redo", None)

SpecDrop == Init /\ [][NextDrop]_vars

\* ------------------------------------------------ import/export behaviours
MaxIoOps == 5

RawImage(id, usable, decodes, placed) ==
  [usable |-> usable, decodes |-> decodes, id |-> id,
   x |-> IF placed THEN Some(Px(10)) ELSE None, y |-> IF placed THEN Some(Px(10)) ELSE None,
   width |-> IF placed THEN Some(Px(8)) ELSE None,
   height |-> IF placed THEN Some(Px(8)) ELSE None,
   naturalWidth |-> Px(4), naturalHeight |-> Px(4)]

RawNote(id, filled) ==
  [id |-> id, x |-> IF filled THEN Some(Px(30)) ELSE None,
   y |-> IF filled THEN Some(Px(30)) ELSE None,
   width |-> IF filled THEN Some(Px(60)) ELSE None,
   height |-> IF filled THEN Some(Px(40)) ELSE None,
   text |-> IF filled THEN Some(<<"a">>) ELSE None]

\* A path entry of a document: points is None when the entry has no points
\* array, and an entry of points is None when it is not a point.
RawPath(points, t) == [points |-> points, tool |-> t]

RawDocOf(form, imgs, nts, meta) ==
  [form |-> form, images |-> imgs, notes |-> nts, paths |-> <<>>, meta |-> meta]

RawMeta ==
  Some([appMode |-> "CANVAS", tool |-> "SELECTION",
        selection |-> [img |-> <<201>>, note |-> <<>>, ref |-> <<>>]])

\* The documents tried: three with an invalid top level; one with an image
\* entry without a dataUrl after a good one; one with an image that does not
\* load; one whose entries lack their ids and fields; one whose entries share
\* their ids; a well-formed one; one with three path entries: a stroke with a
\* malformed point, one with only a malformed point, one without points.
RawDocs ==
  { RawDocOf("unparsable", <<>>, <<>>, None),
    RawDocOf("noState", <<>>, <<>>, None),
    RawDocOf("notArrays", <<>>, <<>>, None),
    RawDocOf("ok", <<RawImage(Some(201), TRUE, TRUE, TRUE), RawImage(Some(202), FALSE, TRUE, TRUE)>>,
             <<RawNote(Some(301), TRUE)>>, None),
    RawDocOf("ok", <<RawImage(Some(201), TRUE, FALSE, TRUE)>>, <<>>, None),
    RawDocOf("ok", <<RawImage(None, TRUE, TRUE, FALSE)>>, <<RawNote(None, FALSE)>>, None),
    RawDocOf("ok", <<RawImage(Some(201), TRUE, TRUE, TRUE), RawImage(Some(201), TRUE, TRUE, FALSE)>>,
             <<RawNote(Some(301), TRUE), RawNote(Some(301), FALSE)>>, None),
    RawDocOf("ok", <<RawImage(Some(201), TRUE, TRUE, TRUE)>>, <<RawNote(Some(301), TRUE)>>,
             RawMeta),
    [RawDocOf("ok", <<>>, <<>>, None) EXCEPT
       !.paths = <<RawPath(Some(<<Some(Pt(0, 0)), None, Some(Pt(2, 2))>>), Some("ANNOTATE")),
                   RawPath(Some(<<None>>), Some("pencil")),
                   RawPath(None, None)>>] }

\* The observation kept in these behaviours: the last export, with the scene
\* it was made from as arg, and the last step, with the document read as req.
ObserveIo(name, arg, kind, raw) ==
  /\ ops < MaxIoOps
  /\ ops' = ops + 1
  /\ trail' = (IF name = "export" THEN <<>>
               ELSE SelectSeq(trail, LAMBDA op : op.name = "export"))
              \o <<[OpRecordK(name, arg, kind) EXCEPT !.req = raw]>>
  /\ UNCHANGED <<pushLog, runBroken>>

ImportKind(raw) == IF ImportError(raw) # None THEN "failed" ELSE "imported"

NextImport ==
  \/ \E raw \in RawDocs :
       /\ HandleImportSnapshotFromFile(raw)
       /\ ObserveIo("import", None, ImportKind(raw), Some(raw))
  \/ /\ exported # None
     /\ HandleImportSnapshotFromFile(exported[1])
     /\ ObserveIo("importExported", None, ImportKind(exported[1]), exported)
  \/ HandleExportSnapshot /\ ObserveIo("export", Some(DisplayedScene), "", None)
  \/ ExportFail /\ ObserveIo("exportFail", None, "", None)
  \/ \E sz \in ImageSizes : HandleFileChange(sz[1], sz[2]) /\ ObserveIo("upload", None, "", None)
  \/ HandleDoubleClick([x |-> 30, y |-> 30]) /\ ObserveIo("dblclick", None, "", None)
  \/ \E text \in Texts : HandleNoteTextChange(text) /\ ObserveIo("text", None, "", None)
  \/ HandleDelete /\ ObserveIo("delete", None, "", None)
  \/ Undo /\ ObserveIo("undo", None, "", None)
  \/ Redo /\ ObserveIo("redo", None, "", None)

SpecImport == Init /\ [][NextImport]_vars

\* ------------------------------------- gestures and asynchronous completions
\* A pointer gesture of the left or the middle button interleaved with the
\* calls in flight: generation, background removal, upload, and the keyboard
\* delete.
MaxAsyncOps == 6

ObserveAsync(name, arg, kind, req) ==
  /\ ops < MaxAsyncOps
  /\ ops' = ops + 1
  /\ trail' = <<[OpRecordK(name, arg, kind) EXCEPT !.req = req]>>
  /\ UNCHANGED <<pushLog, runBroken>>

AsyncDocs ==
  { GenDoc(<<ImageA, ImageB>>, "CANVAS", "SELECTION", provider, NANO_BANANA_MODEL_ID,
           <<101>>, <<>>) : provider \in Providers }

\* Pointer positions: in image A, and where image A dragged from there
\* overlaps image B.
AsyncPoints == {Pt(20, 20), Pt(50, 30)}
Buttons == {0, 1}

NextAsync ==
  \/ /\ ops = 0
     /\ \E doc \in AsyncDocs :
          HandleImportSnapshot(doc) /\ ObserveAsync("import", None, "", None)
  \/ \E p \in AsyncPoints, button \in Buttons :
       /\ HandleMouseDown(p, button, NoMods)
       /\ ObserveAsync("down", None, MouseDownBranch(p, button, NoMods), None)
  \/ \E p \in AsyncPoints :
       HandleMouseMove(p) /\ ObserveAsync("move", None, MouseMoveBranch, None)
  \/ \E button \in Buttons :
       /\ HandleMouseUp(button, FALSE)
       /\ ObserveAsync("up", MouseUpArg(button), MouseUpBranch(button), None)
  \/ /\ GenerateRejection = None => calls < MaxCalls
     /\ HandleGenerate /\ ObserveAsync("generate", None, GenKind, None)
  \/ \E r \in requests, status \in QueueStatuses :
       QueueUpdate(r, status, <<>>) /\ ObserveAsync("queue", None, r.kind, Some(r))
  \/ \E r \in requests :
       ProviderResult(r, 1) /\ ObserveAsync("result", None, r.kind, Some(r))
  \/ \E r \in requests, sz \in ImageSizes :
       /\ DecodeGenerated(r, sz[1], sz[2])
       /\ ObserveAsync("decode",
                       Some(GeneratedState(<<GeneratedImage(r, sz[1], sz[2])>>)),
                       r.kind, Some(r))
  \/ /\ RemovalRejection = None => calls < MaxCalls
     /\ HandleBackgroundRemoval /\ ObserveAsync("removeBg", None, RemovalKind, None)
  \/ \E r \in requests, sz \in ImageSizes :
       /\ DecodeRemoval(r, sz[1], sz[2])
       /\ ObserveAsync("decode", Some(GeneratedState(<<RemovalImage(r, sz[1], sz[2])>>)),
                       r.kind, Some(r))
  \/ \E sz \in ImageSizes :
       /\ HandleFileChange(sz[1], sz[2])
       /\ ObserveAsync("upload", Some(UploadedState(sz[1], sz[2])), "", None)
  \/ HandleDelete /\ ObserveAsync("delete", Some(DeletedState), "", None)
  \/ \E jobId \in JobIdRange : HandleDismissFalJob(jobId) /\ ObserveAsync("dismiss", None, "", None)

SpecAsync == Init /\ [][NextAsync]_vars

\* Crop sessions and background removals over images A and B, image A
\* selected.  Pointer positions: inside image A and its bottom-right corner.
ReplacePoints == {Pt(20, 20), Pt(40, 40)}

NextReplace ==
  \/ /\ ops = 0
     /\ HandleImportSnapshot(KeysDoc) /\ ObserveAsync("import", None, "", None)
  \/ /\ buttonsDown = {}
     /\ HandleStartCrop /\ ObserveAsync("startCrop", None, "", None)
  \/ \E p \in ReplacePoints :
       /\ HandleMouseDown(p, 0, NoMods)
       /\ ObserveAsync("down", None, MouseDownBranch(p, 0, NoMods), None)
  \/ \E p \in ReplacePoints :
       HandleMouseMove(p) /\ ObserveAsync("move", None, MouseMoveBranch, None)
  \/ HandleMouseUp(0, FALSE) /\ ObserveAsync("up", MouseUpArg(0), MouseUpBranch(0), None)
  \/ /\ buttonsDown = {}
     /\ HandleConfirmCrop
     /\ ObserveAsync("confirmCrop",
                     IF ConfirmCropBranch = "crop" THEN Some(CroppedState) ELSE None,
                     ConfirmCropBranch, None)
  \/ /\ RemovalRejection = None => calls < MaxCalls
     /\ HandleBackgroundRemoval /\ ObserveAsync("removeBg", None, RemovalKind, None)
  \/ \E r \in requests :
       ProviderResult(r, 1) /\ ObserveAsync("result", None, r.kind, Some(r))
  \/ \E r \in requests, sz \in ImageSizes :
       /\ DecodeRemoval(r, sz[1], sz[2])
       /\ ObserveAsync("decode", Some(GeneratedState(<<RemovalImage(r, sz[1], sz[2])>>)),
                       r.kind, Some(r))
  \/ buttonsDown = {} /\ Undo /\ ObserveAsync("undo", None, "", None)

SpecReplace == Init /\ [][NextReplace]_vars

\* ------------------------------------------------------ upload behaviours
\* Uploads of small and of 800x600 images into a scene whose images are
\* dragged, deleted and restored in between.
MaxUploadOps == 6

ObserveUpload(name, arg, kind) ==
  /\ ops < MaxUploadOps
  /\ ops' = ops + 1
  /\ trail' = <<OpRecordK(name, arg, kind)>>
  /\ UNCHANGED <<pushLog, runBroken>>

UploadSizes == {<<800, 600>>, <<40, 40>>}

\* Pointer positions: in the first upload, in a second upload next to a small
\* first one, and on empty canvas below.
UploadPoints == {Pt(20, 20), Pt(80, 20), Pt(20, 700)}

NextUpload ==
  \/ \E sz \in UploadSizes :
       /\ HandleFileChange(sz[1], sz[2])
       /\ ObserveUpload("upload", Some(UploadedState(sz[1], sz[2])), "")
  \/ \E p \in UploadPoints :
       /\ HandleMouseDown(p, 0, NoMods)
       /\ ObserveUpload("down", None, MouseDownBranch(p, 0, NoMods))
  \/ \E p \in UploadPoints : HandleMouseMove(p) /\ ObserveUpload("move", None, MouseMoveBranch)
  \/ HandleMouseUp(0, FALSE) /\ ObserveUpload("up", MouseUpArg(0), MouseUpBranch(0))
  \/ HandleDelete /\ ObserveUpload("delete", Some(DeletedState), "")
  \/ Undo /\ ObserveUpload("undo", None, "")
  \/ Redo /\ ObserveUpload("redo", None, "")

SpecUpload == Init /\ [][NextUpload]_vars

\* ----------------------------------------------------- drawing behaviours
\* Strokes of the brush and the eraser drawn with the left button, with the
\* middle button pressed and released in between, the toolbar's tool, clear,
\* undo and redo buttons, and a note being edited.
MaxDrawOps == 6

ObserveDraw(name, arg, kind) ==
  /\ ops < MaxDrawOps
  /\ ops' = ops + 1
  /\ trail' = <<OpRecordK(name, arg, kind)>>
  /\ UNCHANGED <<pushLog, runBroken>>

DrawDoc(mode, ps, nts) ==
  [state |-> [images |-> <<ImageA>>, paths |-> ps, notes |-> nts],
   meta |-> Some([appMode |-> mode, tool |-> "BRUSH",
                  selection |-> [img |-> <<>>, note |-> <<>>, ref |-> <<>>]])]

\* An annotate session over an image, the same with a note below it, and a
\* document saved with the Brush tool in Canvas mode over a stroke.
DrawDocs ==
  { DrawDoc("ANNOTATE", <<>>, <<>>),
    DrawDoc("ANNOTATE", <<>>, <<NoteN>>),
    DrawDoc("CANVAS", <<[ref |-> 1, points |-> <<[x |-> 0, y |-> 0]>>, tool |-> "ANNOTATE"]>>,
            <<>>) }

\* Pointer positions: in the image, in the note, on empty canvas.
DrawPoints == {Pt(20, 20), Pt(10, 100), Pt(300, 20)}
DrawTools == {"BRUSH", "ERASE"}

NextDraw ==
  \/ /\ ops = 0
     /\ \E doc \in DrawDocs : HandleImportSnapshot(doc) /\ ObserveDraw("import", None, "")
  \/ \E p \in DrawPoints, button \in Buttons :
       /\ HandleMouseDown(p, button, NoMods)
       /\ ObserveDraw("down", None, MouseDownBranch(p, button, NoMods))
  \/ \E p \in DrawPoints : HandleMouseMove(p) /\ ObserveDraw("move", None, MouseMoveBranch)
  \/ \E button \in Buttons :
       /\ HandleMouseUp(button, FALSE)
       /\ ObserveDraw("up", MouseUpArg(button), MouseUpBranch(button))
  \/ \E t \in DrawTools :
       /\ buttonsDown = {}
       /\ HandleToolChange(t)
       /\ ObserveDraw("tool", IF editingNoteId # None THEN CommitArg ELSE None, "")
  \/ /\ buttonsDown = {}
     /\ HandleClear /\ ObserveDraw("clear", Some(ClearedState), "")
  \/ buttonsDown = {} /\ Undo /\ ObserveDraw("undo", None, "")
  \/ buttonsDown = {} /\ Redo /\ ObserveDraw("redo", None, "")
  \/ /\ buttonsDown = {}
     /\ HandleDoubleClick(Pt(10, 100)) /\ ObserveDraw("dblclick", None, "")
  \/ HandleNoteBlur /\ ObserveDraw("commit", CommitArg, "")

SpecDraw == Init /\ [][NextDraw]_vars

\* ---------------------------------------------------- handleImageOrderChange
\* findIndex: the 0-based position of the first image with the id, -1 when
\* there is none.
FindIndex(imgs, imageId) ==
  LET hit == {i \in 1..Len(imgs) : imgs[i].id = imageId}
  IN IF hit = {} THEN -1 ELSE (CHOOSE i \in hit : \A j \in hit : i <= j) - 1

SwapAt(imgs, i, j) == [imgs EXCEPT ![i + 1] = imgs[j + 1], ![j + 1] = imgs[i + 1]]

\* handleImageOrderChange sending the image to the top or to the bottom.
ImageOrderToEnd(imageId, direction) ==
  LET rest == SelectSeq(images, LAMBDA img : img.id # imageId)
      moved == SelectSeq(images, LAMBDA img : img.id = imageId)
  IN [CurrentScene EXCEPT
        !.images = IF direction = "up" THEN rest \o moved ELSE moved \o rest]

\* The state the updater of handleImageOrderChange returns, for an image of
\* the committed scene.
ImageOrderChangedState(imageId, direction) ==
  LET i == FindIndex(images, imageId)
  IN [CurrentScene EXCEPT
        !.images = IF direction = "up" /\ i < Len(images) - 1 THEN SwapAt(images, i, i + 1)
                   ELSE IF direction = "down" /\ i > 0 THEN SwapAt(images, i, i - 1)
                   ELSE images]

\* The layer buttons of Canvas are shown for the single selected image when it
\* is displayed, no crop session is active, and it overlaps another image of
\* the committed scene.
isImageOverlapping ==
  /\ primaryImageId # None
  /\ FindIndex(images, primaryImageId[1]) # -1
  /\ \E k \in 1..Len(images) :
       /\ images[k].id # primaryImageId[1]
       /\ isOverlapping(images[FindIndex(images, primaryImageId[1]) + 1], images[k])

\* handleImageOrderChange called from a layer button.  The buttons are also
\* disabled at the ends of the list; the handler is modelled with its own
\* bounds test alone.
HandleImageOrderChange(direction) ==
  /\ UNCHANGED ioVars
  /\ cropMode = None
  /\ Len(selectedImageIds) = 1
  /\ FindById(displayedImages, selectedImageIds[1]) # None
  /\ isImageOverlapping
  /\ setState(ImageOrderChangedState(selectedImageIds[1], direction))
  /\ UNCHANGED <<liveVars, selVars, appVars, dragVars, panVars, marqueeVars, cropVars,
                 viewVars>>

\* Three images in a row, each overlapping or touching the next.
OrderDoc ==
  [state |-> [images |-> <<ImageA, ImageC, ImageB>>, paths |-> <<>>, notes |-> <<NoteN>>],
   meta |-> Some([appMode |-> "CANVAS", tool |-> "SELECTION",
                  selection |-> [img |-> <<101>>, note |-> <<>>, ref |-> <<>>]])]
\* Pointer positions: in image A alone, in image C alone, in image B alone.
OrderPoints == {Pt(10, 20), Pt(50, 20), Pt(90, 20)}
Directions == {"up", "down"}

NextOrder ==
  \/ /\ buttonsDown = {}
     /\ HandleImportSnapshot(OrderDoc) /\ ObserveUi("import", None, "")
  \/ \E p \in OrderPoints, mods \in {NoMods, Shift} :
       HandleMouseDown(p, 0, mods) /\ ObserveUi("down", None, MouseDownBranch(p, 0, mods))
  \/ \E p \in OrderPoints : HandleMouseMove(p) /\ ObserveUi("move", None, MouseMoveBranch)
  \/ HandleMouseUp(0, FALSE) /\ ObserveUi("up", MouseUpArg(0), MouseUpBranch(0))
  \/ \E direction \in Directions :
       /\ buttonsDown = {}
       /\ HandleImageOrderChange(direction)
       /\ ObserveUi("order", Some(ImageOrderChangedState(selectedImageIds[1], direction)),
                    direction)
  \/ buttonsDown = {} /\ Undo /\ ObserveUi("undo", None, "")
  \/ buttonsDown = {} /\ Redo /\ ObserveUi("redo", None, "")

SpecOrder == Init /\ [][NextOrder]_vars

\* ================================================================== claims
Sig(state) == getStateSignature(state)
NewestOp(t) == t[Len(t)]
IsUndoRedo(op) == op.name \in {"undo", "redo"}

C2_IndexValid ==
  /\ Len(history) >= 1
  /\ 0 <= index
  /\ index < Len(history)

C2_Witness ==
  /\ lastOp.name = "redo"
  /\ Len(history) = MAX_HISTORY_SIZE
  /\ index = MAX_HISTORY_SIZE - 1
  /\ Len(pushLog) > MAX_HISTORY_SIZE

\* C3: after MAX_HISTORY_SIZE + 5 pushes of pairwise signature-distinct
\* states, each made at the end of the history, the history holds exactly
\* MAX_HISTORY_SIZE entries and none of them is one of the 5 oldest pushed
\* states, wherever undo and redo have moved the index since.
C3_CapDropsOldest ==
  (~runBroken /\ Len(pushLog) = MAX_HISTORY_SIZE + 5)
    => /\ Len(history) = MAX_HISTORY_SIZE
       /\ \A k \in 1..5 : \A j \in 1..Len(history) : Sig(history[j]) # pushLog[k]

C3_Witness ==
  /\ ~runBroken
  /\ Len(pushLog) = MAX_HISTORY_SIZE + 5
  /\ lastOp.name = "undo"
  /\ index = 0

\* C4: a handler run whose setState call yields a state with the same
\* signature as the current scene leaves the history list (every snapshot,
\* redo tail included) and the index unchanged.
C4_SameSignaturePushIsNoOp ==
  [][ (trail' # trail /\ NewestOp(trail').called
         /\ Sig(NewestOp(trail').arg[1]) = Sig(CurrentScene))
      => (history' = history /\ index' = index) ]_vars

C4_Witness ==
  /\ lastOp.name = "commit"
  /\ lastOp.called
  /\ Sig(lastOp.arg[1]) = Sig(lastOp.before)
  /\ lastOp.arg[1] # lastOp.before
  /\ canRedo

\* C5: a handler run whose setState call yields a state whose signature
\* differs from the current scene's drops every snapshot after the current
\* index, appends the new state, drops the oldest snapshot if the capacity is
\* exceeded, and makes the new state the current, last entry (no redo).
C5_PushTruncatesAppendsCaps ==
  [][ (trail' # trail /\ NewestOp(trail').called
         /\ Sig(NewestOp(trail').arg[1]) # Sig(CurrentScene))
      => LET appended == Append(SubSeq(history, 1, index + 1), NewestOp(trail').arg[1])
             expected == IF Len(appended) > MAX_HISTORY_SIZE
                         THEN SubSeq(appended, 2, Len(appended))
                         ELSE appended
         IN /\ history' = expected
            /\ index' = Len(history') - 1
            /\ Len(history') <= MAX_HISTORY_SIZE
            /\ ~(index' < Len(history') - 1) ]_vars

C5_Witness ==
  /\ lastOp.pushed
  /\ lastOp.lenBefore = MAX_HISTORY_SIZE
  /\ lastOp.indexBefore = MAX_HISTORY_SIZE - 1
  /\ ~canRedo

C7_SelectionIsExclusive ==
  /\ lastOp.kind \in {"note-plain", "note-multi"}
       => selectedImageIds = <<>> /\ referenceImageIds = <<>>
  /\ lastOp.kind \in {"image-plain", "image-multi"} => selectedNoteIds = <<>>
  /\ lastOp.kind \in {"note-plain", "note-multi", "image-plain", "image-multi",
                      "marquee-select"}
       => ~(selectedImageIds # <<>> /\ selectedNoteIds # <<>>)

\* C7 (amended): a click without modifier on a note that is not selected
\* leaves exactly that note selected, no image selected and no reference
\* image; a click without modifier on an image that is not selected leaves
\* exactly that image selected, no note selected and no reference image.
C7_PlainSelectionIsExclusive ==
  /\ lastOp.kind = "note-plain"
       => /\ selectedNoteIds = <<getNoteAtPoint(ToWorld(pointer))[1].id>>
          /\ selectedImageIds = <<>>
          /\ referenceImageIds = <<>>
  /\ lastOp.kind = "image-plain"
       => /\ selectedImageIds = <<getImageAtPoint(ToWorld(pointer))[1].id>>
          /\ selectedNoteIds = <<>>
          /\ referenceImageIds = <<>>

C7_Witness ==
  /\ lastOp.kind = "note-plain"
  /\ lastOp.selBefore.img # <<>>
  /\ lastOp.selBefore.ref # <<>>
  /\ selectedNoteIds = <<102>>

\* C8 (as stated): while a crop session is active on an image, the crop
\* rectangle lies within the image and has positive width and height.
C8_CropRectWithinImageAndPositive ==
  (cropMode # None /\ FindById(displayedImages, cropMode[1].imageId) # None)
    => LET rect == cropMode[1].rect
           image == FindById(displayedImages, cropMode[1].imageId)[1]
       IN /\ 0 <= rect.x
          /\ 0 <= rect.y
          /\ rect.x + rect.width <= image.width
          /\ rect.y + rect.height <= image.height
          /\ rect.width > 0
          /\ rect.height > 0

\* C9: a drag of images and notes that ends with the pointer at screen delta
\* (dx, dy) from the pointer-down position, at zoom scale s, commits every
\* dragged image and note at its drag-start position plus (dx / s, dy / s),
\* however many pointer moves came in between and wherever they were; no live
\* overlay remains.
C9_DragMovesByScreenDelta ==
  [][ (trail' # trail /\ NewestOp(trail').kind = "drag-end")
      => LET scene == history'[index' + 1]
             dx == (pointer.x - dragStartPoint[1].x) * Den
             dy == (pointer.y - dragStartPoint[1].y) * Den
             AtDelta(obj, start) ==
               /\ scale * (obj.x - start.x) = dx
               /\ scale * (obj.y - start.y) = dy
         IN /\ \A i \in 1..Len(scene.images) :
                 (Includes(draggedImageIds, scene.images[i].id)
                    /\ dragStartImagePositions # None)
                   => AtDelta(scene.images[i], dragStartImagePositions[1][scene.images[i].id])
            /\ \A i \in 1..Len(scene.notes) :
                 (Includes(draggedNoteIds, scene.notes[i].id)
                    /\ dragStartNotePositions # None)
                   => AtDelta(scene.notes[i], dragStartNotePositions[1][scene.notes[i].id])
            /\ dragStartImagePositions # None
                 => \A id \in Range(draggedImageIds) : FindById(scene.images, id) # None
            /\ dragStartNotePositions # None
                 => \A id \in Range(draggedNoteIds) : FindById(scene.notes, id) # None
            /\ ~HasLive' ]_vars

C9_Witness ==
  /\ lastOp.kind = "drag-end"
  /\ lastOp.moves >= 2
  /\ lastOp.pushed
  /\ scale = 2
  /\ lastOp.selBefore.img # <<>>
  /\ lastOp.selBefore.note # <<>>
  /\ lastOp.after.images[1].x # lastOp.before.images[1].x
  /\ lastOp.after.notes[1].x # lastOp.before.notes[1].x

\* C10 (as stated): the release of a marquee whose extent on screen exceeds
\* the pixel threshold makes the image selection the images that intersect the
\* box and the note selection the notes that intersect it.
C10_MarqueeSelectsIntersecting ==
  [][ (trail' # trail /\ NewestOp(trail').kind \in {"marquee-select", "marquee-empty"})
      => /\ Range(selectedImageIds') = Range(IdsInBounds(displayedImages, MarqueeBox))
         /\ Range(selectedNoteIds') = Range(IdsInBounds(displayedNotes, MarqueeBox)) ]_vars

\* C10 (amended): the release of a marquee whose extent on screen exceeds the
\* pixel threshold and whose box intersects at least one image or note makes
\* the image selection exactly the images that intersect the box and the note
\* selection exactly the notes that intersect it, in scene order and whatever
\* was selected before, and empties the reference set; when the box intersects
\* no image and no note the release leaves the selection as it was.
C10_MarqueeSelectsIntersectingIfAny ==
  [][ /\ (trail' # trail /\ NewestOp(trail').kind = "marquee-select")
        => /\ selectedImageIds' = IdsInBounds(displayedImages, MarqueeBox)
           /\ selectedNoteIds' = IdsInBounds(displayedNotes, MarqueeBox)
           /\ referenceImageIds' = <<>>
           /\ selectedImageIds' # <<>> \/ selectedNoteIds' # <<>>
      /\ (trail' # trail /\ NewestOp(trail').kind = "marquee-empty")
        => UNCHANGED selVars ]_vars

C10_Witness ==
  /\ lastOp.kind = "marquee-select"
  /\ lastOp.selBefore.img = <<101>>
  /\ selectedImageIds = <<101, 103>>
  /\ selectedNoteIds = <<102>>

\* ---------------------------------------------------------------- C11
StepOp == trail'[Len(trail')]
HistoryChanged == <<history, index>> # <<history', index'>>

\* The step pushed one entry that is the current scene with exactly the images
\* imgs appended.
PushedImages(imgs) ==
  /\ index' = index + 1
  /\ history' = Append(SubSeq(history, 1, index + 1), history'[index' + 1])
  /\ history'[index' + 1] = [CurrentScene EXCEPT !.images = images \o imgs]

\* C11: a step in which a generation or background-removal call fails (at the
\* provider call or while decoding any returned image) leaves the history
\* list and the index unchanged; a call changes the history only in the step
\* that decodes its last image, and that step pushes one entry holding all
\* result images of the call, so the results of one request are committed
\* together or not at all.
C11_FailedRequestCommitsNothing ==
  [][ /\ StepOp.name = "fail" => UNCHANGED <<history, index>>
      /\ (StepOp.req # None /\ HistoryChanged) =>
           /\ StepOp.name = "decode"
           /\ StepOp.req[1].pending <= 1
           /\ \E img \in {history'[index' + 1].images[Len(history'[index' + 1].images)]} :
                PushedImages(Append(StepOp.req[1].done, img))
      /\ (StepOp.req # None /\ StepOp.name = "decode" /\ StepOp.req[1].pending <= 1) =>
           HistoryChanged
    ]_vars

\* A generation whose first returned image was decoded fails on the second:
\* nothing of it is in the scene.
C11_Witness ==
  /\ lastOp.name = "fail"
  /\ lastOp.req # None
  /\ lastOp.req[1].kind = "generate"
  /\ lastOp.req[1].stage = "decode"
  /\ Len(lastOp.req[1].done) = 1
  /\ lastOp.lenBefore = Len(history)
  /\ lastOp.before = CurrentScene

\* ---------------------------------------------------------------- C12
JobHas(jobs, jobId, status) ==
  \E i \in 1..Len(jobs) : jobs[i].id = jobId /\ jobs[i].status = status

\* C12: whenever a queued generation fails after its job entry was created
\* (the provider call is rejected or a returned image fails to decode), the
\* error message is set and the job list holds that job's entry with status
\* FAILED and the error recorded on it.
C12_FailedGenerationMarksJobFailed ==
  [][ (StepOp.name = "fail" /\ StepOp.req[1].kind = "generate" /\ StepOp.req[1].usingFal) =>
        /\ error' # None
        /\ \E i \in 1..Len(falJobs') :
             /\ falJobs'[i].id = StepOp.req[1].jobId
             /\ falJobs'[i].status = "FAILED"
             /\ falJobs'[i].error = error'
    ]_vars

QueuedGenerationSucceeded ==
  /\ StepOp.name = "decode"
  /\ StepOp.req[1].kind = "generate" /\ StepOp.req[1].usingFal
  /\ StepOp.req[1].pending <= 1

SuccessMarksListedJobCompleted ==
  [][ QueuedGenerationSucceeded =>
        \A i \in 1..Len(falJobs') :
          falJobs'[i].id = StepOp.req[1].jobId => falJobs'[i].status = "COMPLETED"
    ]_vars

JobKept(i) ==
  \E k \in 1..Len(falJobs') :
    /\ falJobs'[k].id = falJobs[i].id
    /\ falJobs'[k].status = falJobs[i].status
    /\ falJobs[i].error # None => falJobs'[k].error = falJobs[i].error

UserDismissed(i) == StepOp.name = "dismiss" /\ StepOp.arg = Some(falJobs[i].id)

\* The step is a submission that finds the list full with entry i the oldest.
PushedOut(i) ==
  /\ StepOp.name = "generate"
  /\ i = 1 /\ Len(falJobs) = FAL_JOBS_KEPT + 1
  /\ Len(falJobs') = FAL_JOBS_KEPT + 1

FailedIndices == {i \in 1..Len(falJobs) : falJobs[i].status = "FAILED"}

SettledWithOneFailure(d) ==
  d.total >= 2 /\ d.open = {} /\ d.imagesProcessed = d.total - 1

\* C16: when several image files are dropped at once and one of them fails to
\* decode, the failure is surfaced and every file that decoded is in the
\* scene.
C16_OneFailedFileDoesNotAbortDrop ==
  \A d \in drops :
    SettledWithOneFailure(d) =>
      /\ error # None
      /\ \A i \in 1..Len(d.newImages) :
           \E k \in 1..Len(displayedImages) : displayedImages[k].id = d.newImages[i].id

\* ---------------------------------------------------------------- C17
ImportStep == StepOp.name \in {"import", "importExported"}

\* C17: an import that fails at any point reports an error and leaves the
\* history list, the history index, the live overlay and the selection as they
\* were.
C17_FailedImportChangesNothing ==
  [][ (ImportStep /\ StepOp.kind = "failed") =>
        /\ error' # None
        /\ UNCHANGED <<history, index, liveImages, livePaths, liveNotes, selectedImageIds,
                       selectedNoteIds, referenceImageIds>>
    ]_vars

\* A document whose second image entry has no dataUrl was rejected while the
\* history held several entries, an edit was pending in the live overlay and
\* an image was selected.
C17_Witness ==
  /\ lastOp.name = "import" /\ lastOp.kind = "failed"
  /\ error = Some("Snapshot image at index 1 is invalid.")
  /\ Len(history) > 1
  /\ liveNotes # None
  /\ selectedImageIds # <<>>

\* ---------------------------------------------------------------- C18
Distinct(ids) == \A i, j \in 1..Len(ids) : ids[i] = ids[j] => i = j

IdsOf(objs) == [i \in 1..Len(objs) |-> objs[i].id]

\* C18: a document with a valid top level whose images all load is never
\* rejected for an entry with missing or malformed fields, and after the
\* import all image ids are pairwise distinct and all note ids are pairwise
\* distinct.
C18_ImportToleratesMalformedEntries ==
  [][ ( /\ StepOp.name = "import"
        /\ StepOp.req[1].form = "ok"
        /\ \A i \in 1..Len(StepOp.req[1].images) : StepOp.req[1].images[i].decodes ) =>
        /\ StepOp.kind = "imported"
        /\ Distinct(IdsOf(images'))
        /\ Distinct(IdsOf(notes'))
    ]_vars

\* ---------------------------------------------------------------- C19
\* C19: a successful import leaves a single-entry history holding the imported
\* scene at index 0 and an empty live overlay, so neither undo nor redo is
\* available.
C19_ImportResetsHistory ==
  [][ (ImportStep /\ StepOp.kind = "imported") =>
        /\ history' = <<ConvertedDoc(StepOp.req[1], nextId).state>>
        /\ index' = 0
        /\ liveImages' = None /\ livePaths' = None /\ liveNotes' = None
        /\ ~canUndo' /\ ~canRedo'
    ]_vars

\* A document was imported while undo was available and an edit was pending
\* in the live overlay.
C19_Witness ==
  /\ lastOp.name = "import" /\ lastOp.kind = "imported"
  /\ lastOp.indexBefore > 0
  /\ lastOp.liveBefore
  /\ Len(history) = 1 /\ Len(images) = 2

\* ---------------------------------------------------------------- C20
\* The scene the exported document was made from.
ExportedFrom == trail'[1].arg[1]

\* C20: importing the exported document succeeds and gives the images and the
\* notes of the exported scene, in the same order, with equal ids, positions,
\* sizes and text; any import keeps the id of every entry that carries one.
C20_ExportImportRoundTrip ==
  [][ /\ StepOp.name = "importExported" =>
           /\ StepOp.kind = "imported"
           /\ images' = ExportedFrom.images
           /\ notes' = ExportedFrom.notes
      /\ (ImportStep /\ StepOp.kind = "imported") =>
           /\ \A i \in 1..Len(StepOp.req[1].images) :
                StepOp.req[1].images[i].id # None =>
                  images'[i].id = StepOp.req[1].images[i].id[1]
           /\ \A i \in 1..Len(StepOp.req[1].notes) :
                StepOp.req[1].notes[i].id # None =>
                  notes'[i].id = StepOp.req[1].notes[i].id[1]
    ]_vars

\* The exported document, holding an image and an edited note, was imported
\* after the scene had been changed.
C20_Witness ==
  /\ lastOp.name = "importExported" /\ lastOp.kind = "imported"
  /\ Len(images) = 1 /\ Len(notes) = 1
  /\ notes[1].text = <<"b">>
  /\ lastOp.before # CurrentScene
  /\ trail[1].arg[1].images = images /\ trail[1].arg[1].notes = notes

\* ---------------------------------------------------------------- C21
\* The committed image a submitted edit is about: the first selected id looked
\* up in the scene at the current history index.
CommittedPrimary ==
  {img \in Range(history[index + 1].images) :
     selectedImageIds # <<>> /\ img.id = selectedImageIds[1]}

\* C21: a generation request submitted while a live overlay exists carries the
\* committed scene, not the overlay: its mask is the committed paths, the
\* source of an edit without references is the selected image as committed,
\* its results are placed 20 units right of that committed rectangle, and a
\* text-to-image result 20 units right of the committed images; the step that
\* decodes the result leaves the overlay alone and pushes one history entry
\* that is the committed scene with the image appended at that placement.
C21_GenerationReadsCommittedScene ==
  [][ /\ (StepOp.name = "generate" /\ StepOp.kind = "submitted") =>
           \A r \in requests' \ requests :
             /\ r.mask = history[index + 1].paths
             /\ (referenceImageIds = <<>> /\ CommittedPrimary # {}) =>
                  \E img \in CommittedPrimary :
                    /\ r.source = img
                    /\ r.origin = [x |-> img.x + img.width + Px(20), y |-> img.y]
             /\ (selectedImageIds = <<>> /\ history[index + 1].images # <<>>) =>
                  /\ \A img \in Range(history[index + 1].images) :
                       r.origin.x >= img.x + img.width + Px(20) /\ r.origin.y <= img.y
                  /\ \E img \in Range(history[index + 1].images) :
                       r.origin.x = img.x + img.width + Px(20)
                  /\ \E img \in Range(history[index + 1].images) : r.origin.y = img.y
      /\ (StepOp.name = "decode" /\ StepOp.kind = "generate") =>
           /\ UNCHANGED liveVars
           /\ \E img \in {history'[index' + 1].images[Len(history'[index' + 1].images)]} :
                /\ PushedImages(<<img>>)
                /\ img.x = StepOp.req[1].origin.x /\ img.y = StepOp.req[1].origin.y
    ]_vars

\* An edit was submitted in the middle of a drag that has moved the selected
\* image away from its committed place.
C21_Witness ==
  /\ lastOp.name = "generate" /\ lastOp.kind = "submitted"
  /\ isDragging /\ liveImages # None
  /\ \E r \in requests, img \in Range(liveImages[1]) :
       /\ r.kind = "generate" /\ r.stage = "provider"
       /\ img.id = r.source.id
       /\ img.x # r.source.x

\* ---------------------------------------------------------------- C24
\* The reference images of the committed scene, in the order they were picked.
CommittedReferences ==
  LET found == {img \in Range(history[index + 1].images) : Includes(referenceImageIds, img.id)}
  IN SelectSeq(referenceImageIds, LAMBDA id : \E img \in found : img.id = id)

\* Two rectangles have a point in common: the separating-axis test finds no
\* axis on which one lies wholly beyond the other (rectangles that touch along
\* an edge count as overlapping).
RectanglesOverlap(a, b) ==
  /\ a.x <= b.x + b.width /\ b.x <= a.x + a.width
  /\ a.y <= b.y + b.height /\ b.y <= a.y + a.height

ReferenceOverlapsPrimary ==
  \E p \in CommittedPrimary, img \in Range(history[index + 1].images) :
    Includes(referenceImageIds, img.id) /\ RectanglesOverlap(p, img)

\* C24: an edit submitted with a primary image and reference images carries,
\* when no reference rectangle overlaps the primary's, the primary as its source
\* and every reference as a separate input; when a reference overlaps the
\* primary, one composite of the primary and all references as its source and
\* an empty reference list.
C24_ReferencesSeparateOrComposed ==
  [][ (/\ StepOp.name = "generate" /\ StepOp.kind = "submitted"
       /\ CommittedPrimary # {} /\ CommittedReferences # <<>>) =>
        \A r \in requests' \ requests :
          IF ReferenceOverlapsPrimary
          THEN /\ r.references = <<>>
               /\ r.source.id \notin Range(IdsOf(history[index + 1].images))
               /\ Range(r.composed) = {selectedImageIds[1]} \cup Range(CommittedReferences)
          ELSE /\ r.references = CommittedReferences
               /\ r.source \in CommittedPrimary
               /\ r.composed = <<>>
    ]_vars

\* An edit was submitted with two references of which one overlaps the
\* primary: the three images are composed in scene order.
C24_Witness ==
  /\ lastOp.name = "generate" /\ lastOp.kind = "submitted"
  /\ \E r \in requests :
       /\ r.kind = "generate" /\ r.stage = "provider"
       /\ r.references = <<>> /\ r.composed = <<103, 104, 101>>

\* An edit was submitted with a reference apart from the primary.
C24_WitnessSeparate ==
  /\ lastOp.name = "generate" /\ lastOp.kind = "submitted"
  /\ \E r \in requests :
       /\ r.kind = "generate" /\ r.stage = "provider"
       /\ r.references = <<103>> /\ r.source.id = 101

\* ---------------------------------------------------------------- C25
\* C25: an upload pushes the current scene with one image appended: at (0,0)
\* when the scene had no images, otherwise 20 units right of the last image of
\* the scene at that image's y; two 800x600 uploads into the empty scene end
\* at (0,0) and (820,0).
C25_UploadPlacedRightOfLastImage ==
  [][ StepOp.name = "upload" =>
        LET before == history[index + 1].images
            after == history'[index' + 1].images
            new == after[Len(after)]
        IN /\ index' = index + 1
           /\ after = Append(before, new)
           /\ IF before = <<>>
              THEN new.x = 0 /\ new.y = 0
              ELSE /\ new.x = before[Len(before)].x + before[Len(before)].width + Px(20)
                   /\ new.y = before[Len(before)].y
           /\ (/\ ops = 1 /\ lastOp.name = "upload" /\ Len(before) = 1
               /\ before[1].width = Px(800) /\ new.width = Px(800)) =>
                /\ <<before[1].x, before[1].y>> = <<0, 0>>
                /\ <<new.x, new.y>> = <<Px(820), 0>>
    ]_vars

\* Two 800x600 images were uploaded into the empty scene.
C25_Witness ==
  /\ ops = 2 /\ lastOp.name = "upload"
  /\ Len(images) = 2
  /\ \A i \in 1..2 : images[i].width = Px(800) /\ images[i].height = Px(600)
  /\ <<images[1].x, images[1].y>> = <<0, 0>>
  /\ <<images[2].x, images[2].y>> = <<Px(820), 0>>

\* An image was uploaded after the last image had been dragged down, below
\* the first one.
C25_WitnessAfterDrag ==
  /\ lastOp.name = "upload"
  /\ Len(images) = 3
  /\ images[2].y > images[1].y + images[1].height
  /\ images[3].x = images[2].x + images[2].width + Px(20)
  /\ images[3].y = images[2].y

\* ---------------------------------------------------------------- C22
\* C22: no snapshot of the history holds a path without points.
C22_NoPathWithoutPoints ==
  \A i \in 1..Len(history) : \A path \in Range(history[i].paths) : path.points # <<>>

\* ---------------------------------------------------------------- C23
\* C23: history snapshots are independent values: a step that does not
\* replace the history leaves every snapshot up to the current index as it
\* was stored (a push only removes the snapshots after the current index).
C23_StoredSnapshotsNeverChange ==
  [][ StepOp.name # "import" =>
        \A i \in 1..(index + 1) : i <= Len(history') => history'[i] = history[i]
    ]_vars

\* ---------------------------------------------------------------- C26
\* A stroke of the brush has been drawn and committed.
BrushStrokeCommitted ==
  \E path \in Range(paths) : path.tool \in {"ANNOTATE", "INPAINT"} /\ livePaths = None

\* C26: the clear action taken after a committed brush stroke pushes one
\* history entry whose paths are empty and whose images and notes are those of
\* the scene before it; the snapshots before it stay as they were.
C26_ClearEmptiesPathsOnly ==
  [][ (StepOp.name = "clear" /\ BrushStrokeCommitted) =>
        /\ index' = index + 1
        /\ Len(history') = index' + 1
        /\ SubSeq(history', 1, index + 1) = SubSeq(history, 1, index + 1)
        /\ history'[index' + 1].paths = <<>>
        /\ history'[index' + 1].images = images
        /\ history'[index' + 1].notes = notes
    ]_vars

\* The clear action was taken on a scene holding an image, a note and a
\* committed brush stroke of two points.
C26_Witness ==
  /\ lastOp.name = "clear"
  /\ \E path \in Range(lastOp.before.paths) : path.tool = "ANNOTATE" /\ Len(path.points) = 2
  /\ lastOp.pushed
  /\ paths = <<>>
  /\ images = <<ImageA>> /\ notes = <<NoteN>>

\* ---------------------------------------------------------------- C27
\* A drag of objects started with the left button (the tool is Select) is in
\* progress, and the middle button, pressed on empty canvas, is panning.
LeftDragWithMiddlePan ==
  /\ buttonsDown = {0, 1}
  /\ tool = "SELECTION"
  /\ isDragging /\ isPanning

\* C27: releasing the middle button while a left-button drag of objects is in
\* progress does not end, reset or commit that drag.
C27_MiddleReleaseKeepsLeftDrag ==
  [][ (LeftDragWithMiddlePan /\ StepOp.name = "up" /\ buttonsDown' = {0}) =>
        /\ isDragging'
        /\ UNCHANGED <<draggedImageIds, draggedNoteIds, dragStartPoint,
                       dragStartImagePositions, dragStartNotePositions>>
        /\ UNCHANGED <<histVars, liveVars>>
    ]_vars

\* ---------------------------------------------------------------- C28
\* The call of this step was made for an image that is no longer in the scene.
SourceRemoved ==
  /\ StepOp.req # None
  /\ StepOp.req[1].source.id # 0
  /\ StepOp.req[1].source.id \notin Range(IdsOf(images))

\* The call of this step tracks a job that is no longer in the job list.
JobRemoved ==
  /\ StepOp.req # None
  /\ StepOp.req[1].usingFal
  /\ StepOp.req[1].jobId \notin JobIds(falJobs)

\* C28: a generation or background removal that completes after its source
\* image was removed from the scene changes nothing in the scene, and a queue
\* update or a completion for a job that is no longer in the job list changes
\* nothing in the job list.
C28_CompletionForRemovedTargetDiscarded ==
  [][ /\ (StepOp.name = "decode" /\ SourceRemoved) => UNCHANGED <<history, index>>
      /\ (StepOp.name \in {"queue", "result", "decode"} /\ JobRemoved) => UNCHANGED falJobs
    ]_vars

\* ---------------------------------------------------------------- C29
\* C29: releasing a drag of objects removes no image from the current scene:
\* every image of the committed scene at the release, an image appended by a
\* completion during the drag included, is in the current scene after it.
C29_AppendedImageSurvivesDragCommit ==
  [][ (StepOp.name = "up" /\ StepOp.kind = "drag-end") =>
        Range(IdsOf(images)) \subseteq Range(IdsOf(images'))
    ]_vars

\* ---------------------------------------------------------------- C30
\* The step folded the live overlay into the history and cleared it.
CommitStep ==
  /\ StepOp.name \in {"commit", "tool", "up", "leave"}
  /\ HasLive
  /\ liveImages' = None /\ livePaths' = None /\ liveNotes' = None

\* C30: committing the live overlay does not change what is displayed: the
\* images, paths and notes shown after the commit, the text of every note
\* included, are those shown before it.
C30_CommitKeepsDisplayedScene ==
  [][ CommitStep =>
        /\ Coalesce(liveImages', history'[index' + 1].images) = displayedImages
        /\ Coalesce(livePaths', history'[index' + 1].paths) = displayedPaths
        /\ Coalesce(liveNotes', history'[index' + 1].notes) = displayedNotes
    ]_vars

\* ---------------------------------------------------------------- C31
\* C31: a queue update, a completion or a failure of one queued call leaves
\* every tracked job with another id where it is in the list, with its status,
\* logs and error unchanged.
C31_JobsTrackedIndependently ==
  [][ (/\ StepOp.name \in {"queue", "result", "fail", "decode"}
       /\ StepOp.req # None /\ StepOp.req[1].usingFal) =>
        /\ Len(falJobs') = Len(falJobs)
        /\ \A i \in 1..Len(falJobs) :
             falJobs[i].id # StepOp.req[1].jobId => falJobs'[i] = falJobs[i]
    ]_vars

\* Two queued generations are in flight; the first has been reported in
\* progress with a log line while the second is still as it was submitted.
C31_Witness ==
  /\ lastOp.name = "queue"
  /\ Len(falJobs) = 2
  /\ Cardinality({r \in requests : r.usingFal /\ r.stage = "provider"}) = 2
  /\ falJobs[1].status = "IN_PROGRESS" /\ falJobs[1].logs = <<"IN_PROGRESS">>
  /\ falJobs[2].status = "IN_QUEUE" /\ falJobs[2].logs = <<>>

\* C32: while a crop session is active, a pointer-down, pointer-move,
\* double-click or key press only starts or continues a crop action, changes
\* the crop rectangle, or confirms or cancels the crop: no note is created, the
\* selection changes only by the confirm, no drag, resize, pan, marquee or
\* stroke starts, no tool or edit mode changes, and nothing is deleted.
C32_CropSuppressesOtherTools ==
  [][ (cropMode # None /\ StepOp.name \in {"down", "move", "dblclick", "key"}) =>
        LET confirm == StepOp.name = "key" /\ StepOp.kind = "crop-confirm"
            cancel == StepOp.name = "key" /\ StepOp.kind = "crop-cancel"
        IN /\ UNCHANGED <<liveVars, editingNoteId, tool, appMode, nextId, dragVars, panVars,
                          marqueeVars, scale, pan>>
           /\ ~confirm => UNCHANGED <<histVars, selVars>>
           /\ confirm =>
                /\ IdsOf(history'[index' + 1].images) = IdsOf(history[index + 1].images)
                /\ history'[index' + 1].notes = history[index + 1].notes
                /\ history'[index' + 1].paths = history[index + 1].paths
                /\ UNCHANGED <<selectedNoteIds, referenceImageIds>>
           /\ cropMode' # None => cropMode'[1].imageId = cropMode[1].imageId
           /\ cropMode' = None => confirm \/ cancel
           /\ cropAction' # cropAction => StepOp.name = "down" ]_vars

\* A pointer-down on the note with the Note tool during a crop session.
C32_Witness ==
  /\ lastOp.name = "down" /\ lastOp.kind = "crop-miss"
  /\ cropMode # None /\ tool = "NOTE"
  /\ pointer = Pt(10, 100)
  /\ Len(displayedNotes) = 1

\* The delete key pressed during a crop session with the image selected.
C32_WitnessKey ==
  /\ lastOp.name = "key" /\ lastOp.kind = "crop-ignored"
  /\ cropMode # None /\ selectedImageIds = <<101>>
  /\ Len(displayedImages) = 2

\* C33: with the Note tool and no crop session, a pointer-down creates exactly
\* one new note centred at the click, makes it the selected note, and leaves
\* the editor in text-edit mode for that note with no drag in progress.
C33_NoteToolCreatesNoteInEditMode ==
  [][ StepOp.name = "note" =>
        LET newNote == displayedNotes'[Len(displayedNotes')]
            point == ToWorld(pointer')
        IN /\ Len(displayedNotes') = Len(displayedNotes) + 1
           /\ SubSeq(displayedNotes', 1, Len(displayedNotes)) = displayedNotes
           /\ newNote.id \notin Range(IdsOf(displayedNotes))
           /\ newNote.x + newNote.width \div 2 = point.x
           /\ newNote.y + newNote.height \div 2 = point.y
           /\ selectedNoteIds' = <<newNote.id>>
           /\ ~isDragging' /\ ~isResizing'
           /\ editingNoteId' = Some(newNote.id) ]_vars

\* C34: with the Brush tool in CANVAS mode a left-button gesture (pointer-down,
\* moves, release) creates no path, changes no existing path, and leaves the
\* history and the live overlay unchanged.
C34_BrushInCanvasModeIsNoOp ==
  [][ (/\ tool = "BRUSH" /\ appMode = "CANVAS"
       /\ StepOp.name \in {"down", "move", "up"}
       /\ buttonsDown \cup buttonsDown' = {0}) =>
        UNCHANGED <<history, index, liveVars>> ]_vars

\* C35: while the pointer moves in a drag, resize or stroke gesture only the
\* live overlay changes (the history list and the index stay as they are); the
\* release of the left button clears the gesture flags and the overlay and
\* adds at most one history entry, and none when no overlay slot was set.
C35_GestureTouchesHistoryOnlyOnRelease ==
  [][ LET active == isDragging \/ isResizing \/ isDrawing
          released == 0 \in buttonsDown /\ buttonsDown' = buttonsDown \ {0}
      IN /\ (StepOp.name = "move" /\ active) => UNCHANGED <<history, index>>
         /\ (StepOp.name \in {"up", "leave"} /\ active /\ released) =>
              /\ ~isDragging' /\ ~isResizing' /\ ~isDrawing'
              /\ ~HasLive'
              /\ \/ UNCHANGED <<history, index>>
                 \/ /\ index' = index + 1
                    /\ Len(history') = index' + 1
                    /\ SubSeq(history', 1, index') = SubSeq(history, 1, index')
              /\ ~HasLive => UNCHANGED <<history, index>> ]_vars

\* C36: a pointer-down starts a note resize only with the Selection or
\* FreeSelection tool, with exactly one note selected, and at a point inside
\* the handle square at that note's bottom-right corner; a pointer-down outside
\* that note's rectangle never starts a resize.
C36_ResizeOnlyFromHandleSquare ==
  [][ (StepOp.name = "down" /\ ~isResizing /\ isResizing') =>
        /\ tool \in SelectionTools
        /\ Len(selectedNoteIds) = 1
        /\ FindById(displayedNotes, selectedNoteIds[1]) # None
        /\ LET note == FindById(displayedNotes, selectedNoteIds[1])[1]
               handleSize == Px(RESIZE_HANDLE_SIZE) \div scale
           IN /\ InRect(ToWorld(pointer'),
                        [x |-> note.x + note.width - handleSize,
                         y |-> note.y + note.height - handleSize,
                         width |-> handleSize, height |-> handleSize])
              /\ InRect(ToWorld(pointer'), note) ]_vars

\* C37: in every reachable state the reference list holds at most
\* MAX_REFERENCE_IMAGES (2) ids and does not contain the primary image id (the
\* first selected image).
C37_ReferencesBoundedAndNotPrimary ==
  /\ Len(referenceImageIds) <= MAX_REFERENCE_IMAGES
  /\ selectedImageIds # <<>> => ~Includes(referenceImageIds, selectedImageIds[1])

\* The images of a step's result are those before it with exactly the image
\* id replaced in place: same length, same ids in the same order, every other
\* image unchanged.
ReplacedInPlace(before, after, id) ==
  /\ Len(after) = Len(before)
  /\ IdsOf(after) = IdsOf(before)
  /\ \A i \in 1..Len(before) : before[i].id # id => after[i] = before[i]

\* C38 (as stated): crop confirm and background removal each replace exactly
\* one image in place: the resulting scene has the same number of images, the
\* affected image keeps its id and its z-order position, and every other image
\* is unchanged.
C38_CropAndRemovalReplaceInPlace ==
  [][ /\ (StepOp.name = "confirmCrop" /\ StepOp.kind = "crop") =>
           ReplacedInPlace(images, images', cropMode[1].imageId)
      /\ (StepOp.name = "decode" /\ StepOp.kind = "removeBg") =>
           ReplacedInPlace(images, images', StepOp.req[1].source.id) ]_vars

\* C38 (amended): crop confirm replaces exactly one image in place (same number
\* of images, the cropped image keeps its id and z-order position, every other
\* image unchanged).  Background removal replaces nothing: it appends one new
\* image with a fresh id on top, right of the source image, leaves every
\* existing image unchanged in place, and selects the new image.
C38_CropReplacesRemovalAppends ==
  [][ /\ (StepOp.name = "confirmCrop" /\ StepOp.kind = "crop") =>
           ReplacedInPlace(images, images', cropMode[1].imageId)
      /\ (StepOp.name = "decode" /\ StepOp.kind = "removeBg") =>
           LET newImage == images'[Len(images')]
           IN /\ Len(images') = Len(images) + 1
              /\ SubSeq(images', 1, Len(images)) = images
              /\ newImage.id \notin Range(IdsOf(images))
              /\ newImage.x = StepOp.req[1].source.x + StepOp.req[1].source.width
                                + Px(PLACEMENT_GAP)
              /\ selectedImageIds' = <<newImage.id>> ]_vars

\* A crop of image A to a smaller rectangle has been confirmed with image B
\* on the canvas.
C38_Witness ==
  /\ lastOp.name = "confirmCrop" /\ lastOp.kind = "crop"
  /\ Len(images) = 2
  /\ images[1].id = 101 /\ images[1].width < ImageA.width
  /\ images[2] = ImageB

\* A background removal of image A has delivered its result.
C38_WitnessRemoval ==
  /\ lastOp.name = "decode" /\ lastOp.kind = "removeBg"
  /\ Len(images) = 3
  /\ images[1] = ImageA /\ images[2] = ImageB

\* C39: an image order change swaps the named image with its upper neighbour
\* (up) or its lower neighbour (down) and changes nothing else, is a no-op for
\* the topmost image moved up and the bottommost moved down, and leaves the
\* image list a permutation of the same images, none added, lost or duplicated.
C39_OrderChangeSwapsWithNeighbour ==
  [][ StepOp.name = "order" =>
        LET i == FindIndex(images, selectedImageIds[1]) + 1
            j == IF StepOp.kind = "up" THEN i + 1 ELSE i - 1
        IN /\ i \in 1..Len(images)
           /\ images' = IF j \in 1..Len(images)
                        THEN [images EXCEPT ![i] = images[j], ![j] = images[i]]
                        ELSE images
           /\ j \notin 1..Len(images) => UNCHANGED <<history, index>>
           /\ Len(images') = Len(images)
           /\ Range(images') = Range(images)
           /\ Cardinality(Range(IdsOf(images'))) = Len(images')
           /\ CurrentScene'.notes = CurrentScene.notes
           /\ CurrentScene'.paths = CurrentScene.paths
           /\ UNCHANGED <<liveVars, selVars>> ]_vars

\* Image A, first the bottommost of three, has been moved up twice and is the
\* topmost.
C39_Witness ==
  /\ lastOp.name = "order" /\ lastOp.kind = "up"
  /\ IdsOf(images) = <<104, 103, 101>>
  /\ index = 2

\* The bottommost image has been moved down: nothing changed.
C39_WitnessEnd ==
  /\ lastOp.name = "order" /\ lastOp.kind = "down"
  /\ IdsOf(images) = <<101, 104, 103>>
  /\ selectedImageIds = <<101>>
  /\ index = 0 /\ Len(history) = 1

\* C40: the tracked job list never holds more than 10 entries, whatever the
\* number of generation requests submitted and the statuses of the jobs
\* already tracked.
C40_JobListBounded == Len(falJobs) <= FAL_JOBS_KEPT + 1

\* An eleventh submission found ten tracked jobs, all failed, and dropped the
\* oldest of them.
C40_Witness ==
  /\ lastOp.name = "generate"
  /\ calls = 11
  /\ Len(falJobs) = 10
  /\ \A i \in 1..9 : falJobs[i].status = "FAILED"
  /\ falJobs[10].status = "IN_QUEUE"
  /\ Cardinality({falJobs[i].id : i \in 1..10}) = 10

====
